---- MODULE Spec2Model ----
(***************************************************************************)
(* A model of the TripGo MCP server's tool layer: the four tool handlers   *)
(* (routing, get-trip-url, locations, departures), the region resolver,    *)
(* the point-in-polygon helper and the timezone helpers.                   *)
(*                                                                         *)
(* Conventions.                                                            *)
(*   - An optional JavaScript value is a sequence of length 0 or 1:        *)
(*     None is undefined / an absent JSON field, Some(v) a present one.    *)
(*   - A number that may be NaN is modelled the same way: NaN is <<>>.     *)
(*   - Instants are whole seconds counted from 2025-10-04T00:00:00Z, so    *)
(*     that the daylight-saving transitions of the modelled zones are      *)
(*     small numbers.  A wall-clock time is the number of seconds the      *)
(*     same clock reading has as a UTC instant.                            *)
(***************************************************************************)
EXTENDS Integers, Sequences, FiniteSets, TLC

VARIABLES
  pc,        \* position of the tool invocation in its handler
  tool,      \* the tool invoked
  params,    \* the parameters the schema handed to the handler
  requests,  \* the upstream requests sent so far, in order
  responses, \* the upstream responses received so far, in order
  timezone,  \* handleRouting's `timezone` (None until resolved)
  result,    \* the document the handler returned (None if none)
  failure,   \* the pieces of the thrown error's message (<<>> if none)
  timeIn,    \* input of the timezone helpers
  timeOut,   \* their output
  geoIn,     \* input of the region resolver or of the polygon test
  geoOut,    \* its output
  suspended  \* the other invocations in progress, each at an await point

vars == <<pc, tool, params, requests, responses, timezone, result, failure,
          timeIn, timeOut, geoIn, geoOut, suspended>>

invVars == <<pc, tool, params, requests, responses, timezone, result, failure>>
timeVars == <<timeIn, timeOut>>
geoVars == <<geoIn, geoOut>>

None == <<>>
Some(v) == <<v>>

(***************************************************************************)
(* Bounds of the model.                                                    *)
(***************************************************************************)
\* Hours on each side of a daylight-saving transition that wall-clock
\* inputs are drawn from.
MaxSpan == 12
\* Largest latitude and longitude of the coordinate grid.
MaxCoord == 4
\* Longest region list of a regions response.
MaxRegions == 3
\* Most trip groups of a routing response.
MaxGroups == 3
\* Most trips of a routing response, over all its groups.
MaxTrips == 4
\* Largest weightedScore of a trip.
MaxScore == 2
\* Largest hashCode of a segment template.
MaxHash == 2
\* Most segment templates of a routing response.
MaxTemplates == 2
\* Most segments of a trip.
MaxSegments == 2
\* Most locations of one category of a location group.
MaxPerCategory == 2
\* Most vertices of an encoded polygon.
MaxVertices == 4
\* Trips and segments span -MaxSeconds..MaxSeconds seconds.
MaxSeconds == 121
\* Tool invocations in progress at once.
MaxInvocations == 2

(***************************************************************************)
(* The host's timezone database, as Intl sees it.                          *)
(***************************************************************************)
HourSecs == 60 * 60

\* Each zone: the offset before its transition, the transition instant,
\* and the offset from the transition on.
\*   Australia/Sydney: AEST +10:00 until 2025-10-04T16:00:00Z, then AEDT.
\*   America/New_York: EDT -04:00 until 2025-11-02T06:00:00Z, then EST.
ZoneTable ==
  [ UTC    |-> [before |-> 0, at |-> 0, after |-> 0],
    Sydney |-> [before |-> 10 * HourSecs, at |-> 16 * HourSecs,
                after |-> 11 * HourSecs],
    NewYork |-> [before |-> -(4 * HourSecs), at |-> (29 * 24 + 6) * HourSecs,
                 after |-> -(5 * HourSecs)] ]

Zones == DOMAIN ZoneTable
DstZones == {"Sydney", "NewYork"}

\* The UTC offset zone z has at UTC instant u.
OffsetAt(z, u) ==
  IF u < ZoneTable[z].at THEN ZoneTable[z].before ELSE ZoneTable[z].after

\* The wall-clock reading of instant u in zone z (what toLocaleString and
\* formatToParts print).
WallClock(u, z) == u + OffsetAt(z, u)

(***************************************************************************)
(* ISO date-time strings, as the caller may write them.                    *)
(*   wall : the clock reading written in the string                        *)
(*   sfx  : what follows the time                                          *)
(*            "none"   nothing (a naive string)                            *)
(*            "Z"      the letter Z                                        *)
(*            "colon"  an offset written +HH:MM or -HH:MM                  *)
(*            "basic"  an offset written +HHMM or -HHMM (ISO 8601 basic)   *)
(*            "empty"  the string is "" (wall and off are 0)               *)
(*   off  : the offset written, in seconds (0 unless colon or basic)       *)
(***************************************************************************)
EmptyString == [wall |-> 0, sfx |-> "empty", off |-> 0]

\* Wall-clock readings up to MaxSpan hours around each zone's transition
\* (as read on that zone's clock before the transition).
WallClocks ==
  { ZoneTable[z].at + ZoneTable[z].before + k * HourSecs :
      z \in DstZones, k \in (0 - MaxSpan)..MaxSpan }

WrittenOffsets == {10 * HourSecs, -(4 * HourSecs)}

IsoStrings ==
  { [wall |-> w, sfx |-> x, off |-> 0] : w \in WallClocks, x \in {"none", "Z"} }
  \cup
  { [wall |-> w, sfx |-> x, off |-> o] :
      w \in WallClocks, x \in {"colon", "basic"}, o \in WrittenOffsets }

\* The instant an offset-qualified string denotes.
LiteralInstant(s) == s.wall - s.off

(***************************************************************************)
(* helpers.ts: zonedTimeToUtc, toISOStringInTimezone                       *)
(***************************************************************************)
\* new Date(`${isoDateLocalString}Z`): the possible results (<<>> is an
\* Invalid Date).  A naive string gets a valid "Z" form; "" gives "Z",
\* which is no date; an offset written without a colon gives "...+1000Z",
\* which is not in the Date Time String Format, so the result is
\* implementation-defined: an Invalid Date, or a lenient parse that reads
\* the clock as UTC.
ParseWithZ(s) ==
  CASE s.sfx = "none"  -> {Some(s.wall)}
    [] s.sfx = "basic" -> {None, Some(s.wall)}
    [] OTHER           -> {None}

\* zonedTimeToUtc(isoDateLocalString, timezone), given `date`:
\*   targetTime = date shown in `timezone`, utcTime = date shown in UTC
\*   offset     = targetTime - utcTime         the zone's offset AT `date`
\*   return date - offset
ZonedTimeToUtc(date, z) ==
  LET targetTime == WallClock(date, z)
      utcTime == WallClock(date, "UTC")
      offset == targetTime - utcTime
  IN  date - offset

\* timeZoneName: "longOffset": "GMT+10:00", "GMT-04:00", and plain "GMT"
\* for a zero offset.
LongOffset(off) ==
  [prefix |-> "GMT", offset |-> IF off = 0 THEN None ELSE Some(off)]

\* toISOStringInTimezone(utcDate, timezone): the date and time parts are
\* the wall clock in the zone, followed by the timeZoneName part.
ToISOStringInTimezone(u, z) ==
  [wall |-> WallClock(u, z), offsetPart |-> LongOffset(OffsetAt(z, u))]

(***************************************************************************)
(* formatDateForTripGo                                                     *)
(***************************************************************************)
\* isoDateString.includes("Z") || isoDateString.match(/[+-]\d{2}:\d{2}$/)
HasTimezoneInfo(s) == s.sfx \in {"Z", "colon"}

\* new Date(isoDateString) for a string the test above lets through.
DateParse(s) == Some(LiteralInstant(s))

\* formatDateForTripGo(isoDateString, timezone): the possible results, in
\* epoch seconds (<<>> is NaN).
FormatDateForTripGo(s, z) ==
  IF HasTimezoneInfo(s)
  THEN {DateParse(s)}
  ELSE { IF d = None THEN None ELSE Some(ZonedTimeToUtc(d[1], z)) :
           d \in ParseWithZ(s) }

(***************************************************************************)
(* The timezone helpers, applied to every input.                           *)
(***************************************************************************)
TimeIdle == [op |-> "none", epoch |-> None, rendered |-> None]

TimeInit ==
  /\ timeIn \in [iso : IsoStrings, zone : Zones]
  /\ timeOut = TimeIdle

\* formatDateForTripGo(timeIn.iso, timeIn.zone)
ApplyFormatDate ==
  /\ timeOut.op = "none"
  /\ UNCHANGED <<invVars, geoVars, suspended>>
  /\ \E e \in FormatDateForTripGo(timeIn.iso, timeIn.zone) :
       timeOut' = [op |-> "formatDateForTripGo", epoch |-> e, rendered |-> None]
  /\ UNCHANGED timeIn

\* toISOStringInTimezone(zonedTimeToUtc(timeIn.iso, timeIn.zone), timeIn.zone)
\* for a naive string.
ApplyRoundTrip ==
  /\ timeOut.op = "none"
  /\ UNCHANGED <<invVars, geoVars, suspended>>
  /\ timeIn.iso.sfx = "none"
  /\ LET utc == ZonedTimeToUtc(timeIn.iso.wall, timeIn.zone)
     IN  timeOut' = [op |-> "roundTrip", epoch |-> Some(utc),
                     rendered |-> Some(ToISOStringInTimezone(utc, timeIn.zone))]
  /\ UNCHANGED timeIn

TimeNext == ApplyFormatDate \/ ApplyRoundTrip

(***************************************************************************)
(* helpers.ts: coordinateInPolygon                                         *)
(*                                                                         *)
(* Coordinates are points of an integer grid (one grid step is a whole     *)
(* number of the encoding's 1e-5 degree units).  An encoded polygon is the *)
(* sequence of <<dlat, dlng>> steps the polyline encoding stores: the      *)
(* first step is from <<0, 0>>, each later one from the vertex before.     *)
(***************************************************************************)
\* polyline.decode(encodedPolygon): the running sums of the steps, as
\* <<lat, lng>> pairs.
RECURSIVE Decode(_)
Decode(enc) ==
  IF enc = <<>>
  THEN <<>>
  ELSE LET front == Decode(SubSeq(enc, 1, Len(enc) - 1))
           prev == IF front = <<>> THEN <<0, 0>> ELSE front[Len(front)]
           step == enc[Len(enc)]
       IN  Append(front, <<prev[1] + step[1], prev[2] + step[2]>>)

\* points.map((coord) => [coord[1], coord[0]]): <<lng, lat>> pairs.
PolygonCoords(points) ==
  [i \in DOMAIN points |-> <<points[i][2], points[i][1]>>]

\* A variant that appends the first position whatever the last one is.
ClosePolygonAlways(coords) == Append(coords, coords[1])

\* "Close the polygon if it's not already closed".
ClosePolygon(coords) ==
  IF \/ coords[1][1] # coords[Len(coords)][1]
     \/ coords[1][2] # coords[Len(coords)][2]
  THEN Append(coords, coords[1])
  ELSE coords

\* Whether coordinateInPolygon throws: polygonCoords[0] is undefined for
\* an empty decode (a TypeError), and turf's polygon() rejects a linear
\* ring of fewer than 4 positions.
CoordinateInPolygonThrows(enc) ==
  \/ Decode(enc) = <<>>
  \/ Len(ClosePolygon(PolygonCoords(Decode(enc)))) < 4

\* turf's ring test for the point pt = <<x, y>>: the closing position is
\* dropped, a point on an edge is inside (ignoreBoundary is false), and
\* otherwise the edges a ray from the point crosses are counted.
InRing(pt, closed) ==
  LET ring == SubSeq(closed, 1, Len(closed) - 1)
      n == Len(ring)
      Prev(i) == IF i = 1 THEN n ELSE i - 1
      OnBoundary(i) ==
        LET xi == ring[i][1]
            yi == ring[i][2]
            xj == ring[Prev(i)][1]
            yj == ring[Prev(i)][2]
        IN  /\ pt[2] * (xi - xj) + yi * (xj - pt[1]) + yj * (pt[1] - xi) = 0
            /\ (xi - pt[1]) * (xj - pt[1]) <= 0
            /\ (yi - pt[2]) * (yj - pt[2]) <= 0
      \* yi > y !== yj > y  &&  x < (xj - xi) * (y - yi) / (yj - yi) + xi
      Intersect(i) ==
        LET xi == ring[i][1]
            yi == ring[i][2]
            xj == ring[Prev(i)][1]
            yj == ring[Prev(i)][2]
        IN  /\ (yi > pt[2]) # (yj > pt[2])
            /\ IF yj - yi > 0
               THEN (pt[1] - xi) * (yj - yi) < (xj - xi) * (pt[2] - yi)
               ELSE (pt[1] - xi) * (yj - yi) > (xj - xi) * (pt[2] - yi)
  IN  \/ \E i \in 1..n : OnBoundary(i)
      \/ Cardinality({i \in 1..n : Intersect(i)}) % 2 = 1

\* coordinateInPolygon(coordinate, encodedPolygon), when it does not throw.
CoordinateInPolygon(coordinate, enc) ==
  InRing(<<coordinate.lng, coordinate.lat>>,
         ClosePolygon(PolygonCoords(Decode(enc))))

(***************************************************************************)
(* getRegionForCoordinate: regions.find(...)                               *)
(***************************************************************************)
\* The outcome of regions.find from index i on: the index of the region
\* found, 0 for undefined, -1 when coordinateInPolygon threw on the way.
RECURSIVE FindFrom(_, _, _)
FindFrom(coordinate, regions, i) ==
  IF i > Len(regions) THEN 0
  ELSE IF CoordinateInPolygonThrows(regions[i].polygon) THEN -1
  ELSE IF CoordinateInPolygon(coordinate, regions[i].polygon) THEN i
  ELSE FindFrom(coordinate, regions, i + 1)

\* A variant that keeps looking and returns the last region that matches.
RECURSIVE FindLastFrom(_, _, _)
FindLastFrom(coordinate, regions, i) ==
  IF i < 1 THEN 0
  ELSE IF CoordinateInPolygonThrows(regions[i].polygon) THEN -1
  ELSE IF CoordinateInPolygon(coordinate, regions[i].polygon) THEN i
  ELSE FindLastFrom(coordinate, regions, i - 1)

GetLastRegionForCoordinate(coordinate, regions) ==
  FindLastFrom(coordinate, regions, Len(regions))

GetRegionForCoordinate(coordinate, regions) ==
  FindFrom(coordinate, regions, 1)

(***************************************************************************)
(* Regions the upstream may list, and the resolver applied to every input. *)
(***************************************************************************)
\* (1,1) (1,3) (3,3) (3,1), first vertex not repeated.
SquareOpen == << <<1, 1>>, <<0, 2>>, <<2, 0>>, <<0, -2>> >>
\* The same square with the first vertex repeated at the end.
SquareClosed == << <<1, 1>>, <<0, 2>>, <<2, 0>>, <<0, -2>>, <<-2, 0>> >>
\* (2,2) (2,5) (5,2): overlaps the square.
Triangle == << <<2, 2>>, <<0, 3>>, <<3, -3>> >>
\* Two vertices only: no polygon.
Sliver == << <<0, 0>>, <<4, 4>> >>

RegionPool ==
  { [name |-> "AU_NSW_Sydney", polygon |-> SquareOpen, timezone |-> "Sydney"],
    [name |-> "AU_ACT_Canberra", polygon |-> SquareClosed, timezone |-> "UTC"],
    [name |-> "US_NY_NewYork", polygon |-> Triangle, timezone |-> "NewYork"],
    [name |-> "XX_Broken", polygon |-> Sliver, timezone |-> "Sydney"] }

RegionLists(n) == UNION { [1..k -> RegionPool] : k \in 0..n }

Coordinates == [lat : 0..MaxCoord, lng : 0..MaxCoord]

GeoInit ==
  /\ geoIn \in { Some([coordinate |-> c, regions |-> rs]) :
                   c \in Coordinates, rs \in RegionLists(MaxRegions) }
  /\ geoOut = None

\* regions.find((region) => coordinateInPolygon(coordinate, region.polygon))
ResolveRegion ==
  /\ geoOut = None
  /\ UNCHANGED <<invVars, timeVars, suspended>>
  /\ geoOut' = Some(GetRegionForCoordinate(geoIn[1].coordinate, geoIn[1].regions))
  /\ UNCHANGED geoIn

GeoNext == ResolveRegion

(***************************************************************************)
(* JavaScript built-ins the handlers use.                                  *)
(***************************************************************************)
\* Truthiness of an optional string: undefined and "" are falsy.
TruthyString(opt) == opt # None /\ opt[1] # ""

\* Truthiness of an optional date-time string: undefined and "" are falsy.
TruthyTime(opt) == opt # None /\ opt[1].sfx # "empty"

\* Truthiness of an optional number: undefined and 0 are falsy.
TruthyNumber(opt) == opt # None /\ opt[1] # 0

\* Array.prototype.slice(0, end) for an integer end: a negative end counts
\* from the end of the array.
SliceFromStart(arr, end) ==
  LET len == Len(arr)
      rel == IF end < 0 THEN len + end ELSE end
      final == IF rel < 0 THEN 0 ELSE IF rel > len THEN len ELSE rel
  IN  SubSeq(arr, 1, final)

\* Array.prototype.sort((a, b) => key(a) - key(b)) is ascending and
\* stable.  StableOrder(keys) is the order it puts the indices of an array
\* with these keys in: each index is inserted after every index whose key
\* is not greater.
\* A variant that inserts an index before the indices of equal key.
RECURSIVE InsertIndexBeforeTies(_, _, _)
InsertIndexBeforeTies(sorted, x, keys) ==
  IF sorted = <<>> THEN <<x>>
  ELSE IF keys[sorted[Len(sorted)]] < keys[x] THEN Append(sorted, x)
  ELSE Append(InsertIndexBeforeTies(SubSeq(sorted, 1, Len(sorted) - 1), x, keys),
              sorted[Len(sorted)])

RECURSIVE InsertIndex(_, _, _)
InsertIndex(sorted, x, keys) ==
  IF sorted = <<>> THEN <<x>>
  ELSE IF keys[sorted[Len(sorted)]] <= keys[x] THEN Append(sorted, x)
  ELSE Append(InsertIndex(SubSeq(sorted, 1, Len(sorted) - 1), x, keys),
              sorted[Len(sorted)])

RECURSIVE StableOrderUpTo(_, _)
StableOrderUpTo(keys, n) ==
  IF n = 0 THEN <<>>
  ELSE InsertIndex(StableOrderUpTo(keys, n - 1), n, keys)

StableOrder(keys) == StableOrderUpTo(keys, Len(keys))

\* Array.prototype.flatMap over a sequence of sequences.
RECURSIVE Flatten(_)
Flatten(seqs) ==
  IF seqs = <<>> THEN <<>> ELSE Head(seqs) \o Flatten(Tail(seqs))

\* The least element of a non-empty set of indices.
MinIndex(S) == CHOOSE i \in S : \A j \in S : i <= j

(***************************************************************************)
(* handleRouting: selection and formatting of the routing response         *)
(***************************************************************************)
\* group.trips.sort((a, b) => a.weightedScore - b.weightedScore)
SortTrips(trips) ==
  LET order == StableOrder([i \in DOMAIN trips |-> trips[i].weightedScore])
  IN  [i \in DOMAIN trips |-> trips[order[i]]]

\* .sort((a, b) => a.score - b.score)
SortGroups(selected) ==
  LET order == StableOrder([i \in DOMAIN selected |-> selected[i].score])
  IN  [i \in DOMAIN selected |-> selected[order[i]]]

\* group.trips.sort(...)[0] is undefined for a group without trips, and
\* reading its weightedScore is a TypeError.
SelectionThrows(groups) ==
  groups # None /\ \E g \in DOMAIN groups[1] : groups[1][g].trips = <<>>

\* A variant of the per-group step that keeps every trip of the group.
SelectAllTrips(group) ==
  LET sortedTrips == SortTrips(group.trips)
  IN  [trips |-> sortedTrips, score |-> sortedTrips[1].weightedScore]

\* The callback of data.groups.map: the two best scoring trips of a group
\* and the group's score.
SelectTrips(group) ==
  LET sortedTrips == SortTrips(group.trips)
  IN  [trips |-> SliceFromStart(sortedTrips, 2),
       score |-> sortedTrips[1].weightedScore]

\* .slice(0, limit)
CutGroups(sortedGroups, limit) == SliceFromStart(sortedGroups, limit)

\* selectedGroups: data.groups?.map(...).sort(...).slice(0, limit) || []
SelectedGroups(groups, limit) ==
  IF groups = None THEN <<>>
  ELSE CutGroups(
         SortGroups([g \in DOMAIN groups[1] |-> SelectTrips(groups[1][g])]),
         limit)

\* A variant that takes the last template with the hash code.
FindTemplateLast(templates, hashCode) ==
  IF templates = None THEN None
  ELSE LET hits == {i \in DOMAIN templates[1] :
                      templates[1][i].hashCode = hashCode}
       IN  IF hits = {} THEN None
           ELSE Some(templates[1][CHOOSE i \in hits : \A j \in hits : j <= i])

\* data.segmentTemplates?.find((t) => t.hashCode === hashCode)
FindTemplate(templates, hashCode) ==
  IF templates = None THEN None
  ELSE LET hits == {i \in DOMAIN templates[1] :
                      templates[1][i].hashCode = hashCode}
       IN  IF hits = {} THEN None ELSE Some(templates[1][MinIndex(hits)])

\* template?.from?.address and template?.to?.address
AddressOf(place) == IF place = None THEN None ELSE place[1].address

\* A variant whose duration is rounded to the nearest minute.
FormatSegmentRounded(segment, templates) ==
  LET template == FindTemplate(templates, segment.segmentTemplateHashCode)
  IN  [mode |-> IF template # None /\ template[1].modeInfo.alt # ""
                THEN template[1].modeInfo.alt
                ELSE "Unknown Mode",
       duration |-> (segment.endTime - segment.startTime + 30) \div 60,
       action |-> IF template = None THEN None ELSE template[1].action,
       serviceName |-> segment.serviceName,
       serviceNumber |-> segment.serviceNumber,
       from |-> IF template = None THEN None ELSE AddressOf(template[1].from),
       to |-> IF template = None THEN None ELSE AddressOf(template[1].to)]

\* The callback of trip.segments.map.
FormatSegment(segment, templates) ==
  LET template == FindTemplate(templates, segment.segmentTemplateHashCode)
  IN  [mode |-> IF template # None /\ template[1].modeInfo.alt # ""
                THEN template[1].modeInfo.alt
                ELSE "Unknown Mode",
       duration |-> (segment.endTime - segment.startTime) \div 60,
       action |-> IF template = None THEN None ELSE template[1].action,
       serviceName |-> segment.serviceName,
       serviceNumber |-> segment.serviceNumber,
       from |-> IF template = None THEN None ELSE AddressOf(template[1].from),
       to |-> IF template = None THEN None ELSE AddressOf(template[1].to)]

\* A variant that renders the arrival in UTC whatever the timezone.
FormatTripArriveUtc(trip, templates, tz) ==
  [id |-> trip.id,
   depart |-> ToISOStringInTimezone(trip.depart, tz),
   arrive |-> ToISOStringInTimezone(trip.arrive, "UTC"),
   totalDuration |-> (trip.arrive - trip.depart) \div 60,
   segments |-> [k \in DOMAIN trip.segments |->
                   FormatSegment(trip.segments[k], templates)],
   cost |-> trip.moneyCost,
   currency |-> trip.currencySymbol,
   caloriesCost |-> trip.caloriesCost,
   carbonCost |-> trip.carbonCost,
   score |-> trip.weightedScore,
   url |-> trip.saveURL]

\* The callback of group.trips.map.
FormatTrip(trip, templates, tz) ==
  [id |-> trip.id,
   depart |-> ToISOStringInTimezone(trip.depart, tz),
   arrive |-> ToISOStringInTimezone(trip.arrive, tz),
   totalDuration |-> (trip.arrive - trip.depart) \div 60,
   segments |-> [k \in DOMAIN trip.segments |->
                   FormatSegment(trip.segments[k], templates)],
   cost |-> trip.moneyCost,
   currency |-> trip.currencySymbol,
   caloriesCost |-> trip.caloriesCost,
   carbonCost |-> trip.carbonCost,
   score |-> trip.weightedScore,
   url |-> trip.saveURL]

\* formattedTrips: selectedGroups.flatMap((group) => group.trips.map(...))
FormattedTrips(data, limit, tz) ==
  LET selectedGroups == SelectedGroups(data.groups, limit)
  IN  Flatten([g \in DOMAIN selectedGroups |->
                 [k \in DOMAIN selectedGroups[g].trips |->
                    FormatTrip(selectedGroups[g].trips[k],
                               data.segmentTemplates, tz)]])

(***************************************************************************)
(* handleLocationsSearch: flattening of the locations response             *)
(***************************************************************************)
\* The six categories of a location group, in the order the handler walks
\* them, and the type each is labelled with.
Categories ==
  <<"stops", "bikePods", "carParks", "carPods", "carRentals", "freeFloating">>
CategoryTypes ==
  <<"stop", "bikePod", "carPark", "carPod", "carRental", "freeFloating">>

\* name: location.name || ""
OrEmpty(opt) == IF TruthyString(opt) THEN opt[1] ELSE ""

\* The object pushed for one location of category c: a stop carries its
\* services, the other categories an address.
FormatLocation(location, c) ==
  IF c = 1
  THEN [lat |-> location.lat, lng |-> location.lng,
        name |-> OrEmpty(location.name), type |-> CategoryTypes[c],
        code |-> location.code, region |-> location.region,
        services |-> location.services]
  ELSE [lat |-> location.lat, lng |-> location.lng,
        name |-> OrEmpty(location.name),
        address |-> OrEmpty(location.address), type |-> CategoryTypes[c],
        code |-> location.code, region |-> location.region]

\* A variant that walks the categories of a group from the last to the
\* first.
GroupLocationsBackwards(group) ==
  Flatten([d \in DOMAIN Categories |->
             LET c == Len(Categories) + 1 - d
             IN  IF group[Categories[c]] = None THEN <<>>
                 ELSE [k \in DOMAIN group[Categories[c]][1] |->
                         FormatLocation(group[Categories[c]][1][k], c)]])

\* The pushes of one iteration of `for (const group of data.groups)`.
GroupLocations(group) ==
  Flatten([c \in DOMAIN Categories |->
             IF group[Categories[c]] = None THEN <<>>
             ELSE [k \in DOMAIN group[Categories[c]][1] |->
                     FormatLocation(group[Categories[c]][1][k], c)]])

\* A variant that lists the locations of the first group only.
FormattedLocationsOfFirstGroup(data) ==
  IF data.groups = None \/ data.groups[1] = <<>> THEN <<>>
  ELSE GroupLocations(data.groups[1][1])

FormattedLocations(data) ==
  IF data.groups = None THEN <<>>
  ELSE Flatten([g \in DOMAIN data.groups[1] |->
                  GroupLocations(data.groups[1][g])])

\* A variant that counts a missing category as -1.
CountOfOrMinusOne(list) == IF list = None THEN -1 ELSE Len(list[1])

\* group.stops?.length || 0, and the same for the other categories.
CountOf(list) == IF list = None THEN 0 ELSE Len(list[1])

LocationCounts(group) ==
  [stops |-> CountOf(group.stops), bikePods |-> CountOf(group.bikePods),
   carParks |-> CountOf(group.carParks), carPods |-> CountOf(group.carPods),
   carRentals |-> CountOf(group.carRentals),
   freeFloating |-> CountOf(group.freeFloating)]

\* groups: data.groups?.map(...)
GroupSummaries(data) ==
  IF data.groups = None THEN None
  ELSE Some([g \in DOMAIN data.groups[1] |->
               [key |-> data.groups[1][g].key,
                hashCode |-> data.groups[1][g].hashCode,
                locationCounts |-> LocationCounts(data.groups[1][g])]])

(***************************************************************************)
(* handleDepartures: flattening of the departures response                 *)
(***************************************************************************)
\* new Date(seconds * 1000).toISOString(): the UTC clock and a "Z".
ToISOString(seconds) == [wall |-> seconds, offsetPart |-> "Z"]

\* The object pushed for one service of an embarkation stop.  `stop`, the
\* entry of data.stops with the embarkation stop's code, is looked up by
\* the handler and not used in the object.
FormatDeparture(service, stop) ==
  [scheduledDeparture |-> ToISOString(service.startTime),
   realTimeDeparture |->
     IF TruthyNumber(service.realTimeDeparture)
     THEN Some(ToISOString(service.realTimeDeparture[1]))
     ELSE None,
   realTime |-> service.realTimeStatus = Some("IS_REAL_TIME"),
   service |-> [id |-> service.serviceTripID, name |-> service.serviceName,
                number |-> service.serviceNumber,
                direction |-> service.serviceDirection,
                operator |-> service.operator, mode |-> service.mode],
   wheelchairAccessible |-> service.wheelchairAccessible,
   vehicle |->
     IF service.realtimeVehicle # None
     THEN Some([id |-> service.realtimeVehicle[1].id,
                label |-> service.realtimeVehicle[1].label,
                lastUpdate |-> ToISOString(service.realtimeVehicle[1].lastUpdate),
                location |-> service.realtimeVehicle[1].location,
                occupancy |-> service.realtimeVehicle[1].occupancy,
                wifi |-> service.realtimeVehicle[1].wifi])
     ELSE None]

\* data.stops?.find((s) => s.code === stopCode)
FindStop(stops, stopCode) ==
  IF stops = None THEN None
  ELSE LET hits == {i \in DOMAIN stops[1] : stops[1][i].code = Some(stopCode)}
       IN  IF hits = {} THEN None ELSE Some(stops[1][MinIndex(hits)])

\* The pushes of one iteration of `for (const embarkationStop of ...)`.
StopDepartures(embarkationStop, stops) ==
  IF embarkationStop.services = None THEN <<>>
  ELSE [k \in DOMAIN embarkationStop.services[1] |->
          FormatDeparture(embarkationStop.services[1][k],
                          FindStop(stops, embarkationStop.stopCode))]

FormattedDepartures(data) ==
  IF data.embarkationStops = None THEN <<>>
  ELSE Flatten([e \in DOMAIN data.embarkationStops[1] |->
                  StopDepartures(data.embarkationStops[1][e], data.stops)])

(***************************************************************************)
(* Upstream requests.                                                      *)
(***************************************************************************)
\* env.TRIPGO_API_KEY, handed to every tool by registerTripGoTools.
ApiKey == "tripgo-api-key"

TRIPGO_API_BASE_URL == "https://api.tripgo.com/v1"

\* A fetch: method, URL (base, path, search parameters in the order they
\* were appended), the X-TripGo-Key header and the JSON body.
Fetch(method, base, path, query, key, body) ==
  [method |-> method, base |-> base, path |-> path, query |-> query,
   key |-> key, body |-> body]

\* A variant of the regions request that leaves the key header empty.
RegionsRequestWithoutKey(key) ==
  Fetch("POST", TRIPGO_API_BASE_URL, "/regions.json", <<>>, "", Some([v |-> 2]))

\* fetchRegions: POST regions.json with body {v: 2}.
RegionsRequest(key) ==
  Fetch("POST", TRIPGO_API_BASE_URL, "/regions.json", <<>>, key,
        Some([v |-> 2]))

\* A variant of the time parameters that sends both when both are given.
TimeParamsBoth(p, tz) ==
  { (IF TruthyTime(p.departureTime)
     THEN << <<"departAfter", d>> >> ELSE <<>>)
    \o
    (IF TruthyTime(p.arrivalTime)
     THEN << <<"arriveBefore", a>> >> ELSE <<>>) :
      d \in (IF TruthyTime(p.departureTime)
             THEN FormatDateForTripGo(p.departureTime[1], tz) ELSE {None}),
      a \in (IF TruthyTime(p.arrivalTime)
             THEN FormatDateForTripGo(p.arrivalTime[1], tz) ELSE {None}) }

\* if (departureTime) departAfter else if (arrivalTime) arriveBefore: the
\* search parameters that may be appended.
TimeParams(p, tz) ==
  IF TruthyTime(p.departureTime)
  THEN { << <<"departAfter", e>> >> :
           e \in FormatDateForTripGo(p.departureTime[1], tz) }
  ELSE IF TruthyTime(p.arrivalTime)
  THEN { << <<"arriveBefore", e>> >> :
           e \in FormatDateForTripGo(p.arrivalTime[1], tz) }
  ELSE { <<>> }

\* if (modes && modes.length > 0): one "modes" per mode, then allModes=1.
ModeParams(p) ==
  IF p.modes # None /\ Len(p.modes[1]) > 0
  THEN [k \in DOMAIN p.modes[1] |-> <<"modes", p.modes[1][k]>>]
       \o << <<"allModes", "1">> >>
  ELSE <<>>

\* The routing.json search parameters, given the time parameters.
RoutingQuery(p, timeParams) ==
  << <<"from", <<p.from.lat, p.from.lng>>>>,
     <<"to", <<p.to.lat, p.to.lng>>>> >>
  \o timeParams
  \o ModeParams(p)
  \o << <<"v", "11">> >>
  \o (IF TruthyNumber(p.maxWalkingTime)
      THEN << <<"wm", p.maxWalkingTime[1]>> >> ELSE <<>>)
  \o (IF p.wheelchair # None
      THEN << <<"wheelchair", IF p.wheelchair[1] THEN "1" ELSE "0">> >>
      ELSE <<>>)

RoutingRequest(key, p, timeParams) ==
  Fetch("GET", TRIPGO_API_BASE_URL, "/routing.json",
        RoutingQuery(p, timeParams), key, None)

\* handleSaveTrip fetches the URL it is given.
SaveRequest(key, url) ==
  Fetch("GET", url.base, url.path, <<>>, key, None)

LocationsRequest(key, p) ==
  Fetch("GET", TRIPGO_API_BASE_URL, "/locations.json",
        << <<"lat", p.lat>>, <<"lng", p.lng>> >>
        \o (IF TruthyNumber(p.radius)
            THEN << <<"radius", p.radius[1]>> >> ELSE <<>>)
        \o (IF p.modes # None /\ Len(p.modes[1]) > 0
            THEN << <<"modes", p.modes[1]>> >> ELSE <<>>)
        \o (IF TruthyNumber(p.limit)
            THEN << <<"limit", p.limit[1]>> >> ELSE <<>>),
        key, None)

\* The departures.json request bodies that may be sent: timeStamp only if
\* given, converted with the default timezone "UTC"; limit || 10.
DeparturesRequests(key, p) ==
  { Fetch("POST", TRIPGO_API_BASE_URL, "/departures.json", <<>>, key,
          Some([region |-> p.region, embarkationStops |-> p.stopCodes,
                timeStamp |-> ts,
                limit |-> IF TruthyNumber(p.limit) THEN p.limit[1] ELSE 10])) :
      ts \in (IF TruthyTime(p.timeStamp)
              THEN {Some(e) : e \in FormatDateForTripGo(p.timeStamp[1], "UTC")}
              ELSE {None}) }

(***************************************************************************)
(* Upstream responses.                                                     *)
(*   net    : FALSE when fetch itself rejects (a network error)            *)
(*   status : the HTTP status                                              *)
(*   body   : the parsed JSON body, None when the body is not JSON         *)
(***************************************************************************)
NetworkError == [net |-> FALSE, status |-> 0, body |-> None]
Http(status, body) == [net |-> TRUE, status |-> status, body |-> body]

\* What `await fetch(...)` followed by `await response.json()` throws, as
\* the message of the error (<<>> when nothing is thrown).  The status of
\* the response is not looked at.
FetchFailure(r) ==
  IF ~r.net THEN <<"fetch failed">>
  ELSE IF r.body = None THEN <<"Unexpected token < in JSON">>
  ELSE <<>>

\* A variant of the error test that never sees an error.
NoUpstreamError(data) == FALSE

\* if (data.error)
HasUpstreamError(data) == TruthyString(data.error)

(***************************************************************************)
(* The tool invocation.                                                    *)
(***************************************************************************)
\* The prefix each tool's execute puts before the message of what its
\* handler threw.
ToolPrefix(t) ==
  CASE t = "routing"    -> "Error in tripgo_routing: "
    [] t = "save"       -> "Error in tripgo_save: "
    [] t = "locations"  -> "Error in tripgo_locations: "
    [] t = "departures" -> "Error in tripgo_departures: "

\* The handler throws: execute rethrows with the tool's prefix.
Throw(message) ==
  /\ pc' = "failed"
  /\ failure' = <<ToolPrefix(tool)>> \o message
  /\ UNCHANGED result

\* The handler returns a document: execute returns it as the tool result.
Return(doc) ==
  /\ pc' = "done"
  /\ result' = Some(doc)
  /\ UNCHANGED failure

\* tripgoRoutingParams: limit is optional with default 3.
DefaultRoutingLimit == 3
RoutingSchema(p) ==
  IF p.limit = None THEN [p EXCEPT !.limit = Some(DefaultRoutingLimit)] ELSE p

\* tripgoLocationsParams and tripgoDeparturesParams: limit defaults to 10.
DefaultListLimit == 10
ListSchema(p) ==
  IF p.limit = None THEN [p EXCEPT !.limit = Some(DefaultListLimit)] ELSE p

\* A variant that falls back to the first zone of the table.
TimezoneOfNoUtc(found, regions) ==
  IF found = 0 \/ regions[found].timezone = ""
  THEN "Sydney"
  ELSE regions[found].timezone

\* A variant that keeps the timezone in a variable of the module: an
\* invocation takes the timezone another invocation in progress resolved.
TimezoneOfShared(found, regions) ==
  LET resolved == { i \in DOMAIN suspended : suspended[i].timezone # None }
  IN  IF resolved # {}
      THEN suspended[CHOOSE i \in resolved : \A j \in resolved : i <= j].timezone[1]
      ELSE IF found = 0 \/ regions[found].timezone = ""
      THEN "UTC"
      ELSE regions[found].timezone

\* const timezone = region?.timezone || "UTC"
TimezoneOf(found, regions) ==
  IF found = 0 \/ regions[found].timezone = ""
  THEN "UTC"
  ELSE regions[found].timezone

\* tripgo-routing is called: handleRouting starts, and getRegionForCoordinate
\* sends the regions request.
InvokeRouting(p) ==
  /\ pc = "idle"
  /\ UNCHANGED <<timeVars, geoVars, suspended>>
  /\ tool' = "routing"
  /\ params' = Some(RoutingSchema(p))
  /\ requests' = <<RegionsRequest(ApiKey)>>
  /\ pc' = "awaitRegions"
  /\ UNCHANGED <<responses, timezone, result, failure>>

\* The regions response arrives: fetchRegions checks data.regions, the
\* region of the origin is looked up, the routing URL is built and the
\* routing request is sent.
RegionsResponse(r) ==
  /\ pc = "awaitRegions"
  /\ UNCHANGED <<timeVars, geoVars, suspended>>
  /\ responses' = Append(responses, r)
  /\ UNCHANGED <<tool, params>>
  /\ IF FetchFailure(r) # <<>>
     THEN Throw(FetchFailure(r)) /\ UNCHANGED <<requests, timezone>>
     ELSE IF r.body[1].regions = None
     THEN Throw(<<"Failed to fetch regions">>) /\ UNCHANGED <<requests, timezone>>
     ELSE LET regions == r.body[1].regions[1]
              found == GetRegionForCoordinate(params[1].from, regions)
          IN  IF found = -1
              THEN /\ Throw(<<"coordinateInPolygon threw">>)
                   /\ UNCHANGED <<requests, timezone>>
              ELSE /\ timezone' = Some(TimezoneOf(found, regions))
                   /\ \E tp \in TimeParams(params[1], TimezoneOf(found, regions)) :
                        requests' =
                          Append(requests, RoutingRequest(ApiKey, params[1], tp))
                   /\ pc' = "awaitRouting"
                   /\ UNCHANGED <<result, failure>>

\* The routing response arrives: the error check, the selection and the
\* formatting.
RoutingResponse(r) ==
  /\ pc = "awaitRouting"
  /\ UNCHANGED <<timeVars, geoVars, suspended>>
  /\ responses' = Append(responses, r)
  /\ UNCHANGED <<tool, params, requests, timezone>>
  /\ IF FetchFailure(r) # <<>>
     THEN Throw(FetchFailure(r))
     ELSE IF HasUpstreamError(r.body[1])
     THEN Throw(<<"Routing failed: ", r.body[1].error[1]>>)
     ELSE IF SelectionThrows(r.body[1].groups)
     THEN Throw(<<"Cannot read properties of undefined">>)
     ELSE Return([trips |-> FormattedTrips(r.body[1], params[1].limit[1],
                                           timezone[1]),
                  query |-> [from |-> params[1].from, to |-> params[1].to,
                             url |-> requests[Len(requests)]]])

\* tripgo-get-trip-url is called: handleSaveTrip fetches the given URL.
InvokeSave(p) ==
  /\ pc = "idle"
  /\ UNCHANGED <<timeVars, geoVars, suspended>>
  /\ tool' = "save"
  /\ params' = Some(p)
  /\ requests' = <<SaveRequest(ApiKey, p.tripURL)>>
  /\ pc' = "awaitSave"
  /\ UNCHANGED <<responses, timezone, result, failure>>

SaveResponse(r) ==
  /\ pc = "awaitSave"
  /\ UNCHANGED <<timeVars, geoVars, suspended>>
  /\ responses' = Append(responses, r)
  /\ UNCHANGED <<tool, params, requests, timezone>>
  /\ IF FetchFailure(r) # <<>>
     THEN Throw(FetchFailure(r))
     ELSE IF HasUpstreamError(r.body[1])
     THEN Throw(<<"Routing failed: ", r.body[1].error[1]>>)
     ELSE Return([url |-> r.body[1].url])

\* tripgo-locations is called: handleLocationsSearch sends its request.
InvokeLocations(p) ==
  /\ pc = "idle"
  /\ UNCHANGED <<timeVars, geoVars, suspended>>
  /\ tool' = "locations"
  /\ params' = Some(ListSchema(p))
  /\ requests' = <<LocationsRequest(ApiKey, ListSchema(p))>>
  /\ pc' = "awaitLocations"
  /\ UNCHANGED <<responses, timezone, result, failure>>

LocationsResponse(r) ==
  /\ pc = "awaitLocations"
  /\ UNCHANGED <<timeVars, geoVars, suspended>>
  /\ responses' = Append(responses, r)
  /\ UNCHANGED <<tool, params, requests, timezone>>
  /\ IF FetchFailure(r) # <<>>
     THEN Throw(FetchFailure(r))
     ELSE IF HasUpstreamError(r.body[1])
     THEN Throw(<<"Locations search failed: ", r.body[1].error[1]>>)
     ELSE Return([locations |-> FormattedLocations(r.body[1]),
                  groups |-> GroupSummaries(r.body[1]),
                  totalLocations |-> Len(FormattedLocations(r.body[1])),
                  query |-> [lat |-> params[1].lat, lng |-> params[1].lng,
                             radius |-> params[1].radius,
                             modes |-> params[1].modes,
                             limit |-> params[1].limit]])

\* tripgo-departures is called: handleDepartures sends its request.
InvokeDepartures(p) ==
  /\ pc = "idle"
  /\ UNCHANGED <<timeVars, geoVars, suspended>>
  /\ tool' = "departures"
  /\ params' = Some(ListSchema(p))
  /\ \E req \in DeparturesRequests(ApiKey, ListSchema(p)) : requests' = <<req>>
  /\ pc' = "awaitDepartures"
  /\ UNCHANGED <<responses, timezone, result, failure>>

DeparturesResponse(r) ==
  /\ pc = "awaitDepartures"
  /\ UNCHANGED <<timeVars, geoVars, suspended>>
  /\ responses' = Append(responses, r)
  /\ UNCHANGED <<tool, params, requests, timezone>>
  /\ IF FetchFailure(r) # <<>>
     THEN Throw(FetchFailure(r))
     ELSE IF HasUpstreamError(r.body[1])
     THEN Throw(<<"Departures search failed: ", r.body[1].error[1]>>)
     ELSE Return([departures |-> FormattedDepartures(r.body[1]),
                  query |-> [region |-> params[1].region,
                             stopCodes |-> params[1].stopCodes]])

(***************************************************************************)
(* Inputs: tool parameters and upstream payloads.                          *)
(***************************************************************************)
Coord(lat, lng) == [lat |-> lat, lng |-> lng]

\* A naive clock reading, and the same reading with a written offset.
NaiveTime == [wall |-> 26 * HourSecs, sfx |-> "none", off |-> 0]
OffsetTime == [wall |-> 26 * HourSecs, sfx |-> "colon", off |-> 10 * HourSecs]

\* The remaining routing options, together: none given; all given; given
\* with values the handler treats as not given.
RoutingOptions ==
  { [modes |-> None, maxWalkingTime |-> None, wheelchair |-> None],
    [modes |-> Some(<<"pt_pub", "wa_wal">>), maxWalkingTime |-> Some(15),
     wheelchair |-> Some(TRUE)],
    [modes |-> Some(<<>>), maxWalkingTime |-> Some(0),
     wheelchair |-> Some(FALSE)] }

RoutingParams(froms, departures, arrivals, limits) ==
  { [from |-> f, to |-> Coord(3, 3), departureTime |-> d, arrivalTime |-> a,
     modes |-> o.modes, maxWalkingTime |-> o.maxWalkingTime,
     wheelchair |-> o.wheelchair, limit |-> l] :
      f \in froms, d \in departures, a \in arrivals, o \in RoutingOptions,
      l \in limits }

\* A segment reference and a segment template.
Segment(hashCode) ==
  [segmentTemplateHashCode |-> hashCode,
   startTime |-> 16 * HourSecs - 1800, endTime |-> 16 * HourSecs + 1830,
   serviceName |-> None, serviceNumber |-> Some("333")]

Template(hashCode, alt, action, address) ==
  [hashCode |-> hashCode, modeInfo |-> [alt |-> alt], action |-> action,
   from |-> IF address = None THEN None ELSE Some([address |-> address]),
   to |-> Some([address |-> address])]

\* A trip that leaves half an hour before Sydney's transition and arrives
\* half an hour and 30 seconds after it.
Trip(id, score, segments) ==
  [id |-> id, depart |-> 16 * HourSecs - 1800, arrive |-> 16 * HourSecs + 1830,
   moneyCost |-> None, currencySymbol |-> None, caloriesCost |-> None,
   carbonCost |-> Some(2), segments |-> segments, weightedScore |-> score,
   saveURL |-> Some("https://api.tripgo.com/v1/trip/save/1")]

RoutingBody(error, groups, templates) ==
  [error |-> error, groups |-> groups, segmentTemplates |-> templates]

WalkTemplate == Template(1, "Walk", Some("Walk to stop"), Some("George St"))

TwoGroups ==
  << [trips |-> <<Trip(11, 5, <<Segment(1)>>), Trip(12, 3, <<Segment(2)>>),
                  Trip(13, 4, <<>>)>>],
     [trips |-> <<Trip(21, 2, <<Segment(1)>>)>>] >>

RegionsBody(error, regions) == [error |-> error, regions |-> regions]

SydneyRegion ==
  [name |-> "AU_NSW_Sydney", polygon |-> SquareOpen, timezone |-> "Sydney"]
NewYorkRegion ==
  [name |-> "US_NY_NewYork", polygon |-> Triangle, timezone |-> "NewYork"]
BrokenRegion ==
  [name |-> "XX_Broken", polygon |-> Sliver, timezone |-> "Sydney"]

\* Regions responses: a network error, a non-JSON error page, an error
\* body, and region lists (one of them under a non-2xx status).
RegionsResponsesCore ==
  { NetworkError,
    Http(503, None),
    Http(401, Some(RegionsBody(Some("Invalid API key"), None))),
    Http(200, Some(RegionsBody(None, Some(<<>>)))),
    Http(200, Some(RegionsBody(None, Some(<<SydneyRegion>>)))),
    Http(200, Some(RegionsBody(None, Some(<<NewYorkRegion, SydneyRegion>>)))),
    Http(200, Some(RegionsBody(None, Some(<<BrokenRegion>>)))),
    Http(500, Some(RegionsBody(None, Some(<<SydneyRegion>>)))) }

\* Routing responses: failures of the call, error bodies (one with an
\* empty error string), non-2xx statuses with a JSON body, and results.
RoutingResponsesCore ==
  { NetworkError,
    Http(502, None),
    Http(200, Some(RoutingBody(Some("No routes found"), None, None))),
    Http(200, Some(RoutingBody(Some(""), Some(TwoGroups), Some(<<WalkTemplate>>)))),
    Http(500, Some(RoutingBody(Some("Internal error"), None, None))),
    Http(500, Some(RoutingBody(None, None, None))),
    Http(200, Some(RoutingBody(None, Some(TwoGroups), Some(<<WalkTemplate>>)))),
    Http(200, Some(RoutingBody(None, Some(<<[trips |-> <<>>]>>), None))) }

RoutingParamsCore ==
  RoutingParams({Coord(2, 2), Coord(0, 0)},
                {None, Some(EmptyString), Some(NaiveTime), Some(OffsetTime)},
                {None, Some(EmptyString), Some(NaiveTime)},
                {None, Some(1)})

\* get-trip-url: the URL of a trip, on the API's host or elsewhere.
SaveParamsCore ==
  { [tripURL |-> [base |-> TRIPGO_API_BASE_URL, path |-> "/trip/save/1"]],
    [tripURL |-> [base |-> "https://example.org", path |-> "/collect"]] }

SaveBody(error, url) == [error |-> error, url |-> url]

SaveResponsesCore ==
  { NetworkError,
    Http(404, None),
    Http(200, Some(SaveBody(Some("Trip expired"), None))),
    Http(200, Some(SaveBody(Some(""), Some("https://tripgo.com/trip/1")))),
    Http(500, Some(SaveBody(None, None))),
    Http(200, Some(SaveBody(None, Some("https://tripgo.com/trip/1")))) }

LocationsParamsCore ==
  { [lat |-> 2, lng |-> 2, radius |-> r, modes |-> m, limit |-> l] :
      r \in {None, Some(0), Some(500)},
      m \in {None, Some(<<>>), Some(<<"pt_pub">>)},
      l \in {None, Some(0), Some(5)} }

Location(name, address) ==
  [lat |-> 2, lng |-> 2, name |-> name, address |-> address,
   code |-> Some("200060"), region |-> Some("AU_NSW_Sydney"),
   services |-> None]

LocationGroup(stops, bikePods, carParks) ==
  [key |-> "2_2", hashCode |-> 7, stops |-> stops, bikePods |-> bikePods,
   carParks |-> carParks, carPods |-> None, carRentals |-> Some(<<>>),
   freeFloating |-> None]

LocationsBody(error, groups) == [error |-> error, groups |-> groups]

SomeLocations ==
  << LocationGroup(Some(<<Location(Some("Central"), None),
                          Location(None, None)>>),
                   None,
                   Some(<<Location(Some("Car park"), Some("1 Pitt St"))>>)),
     LocationGroup(None, Some(<<Location(Some(""), Some(""))>>), Some(<<>>)) >>

LocationsResponsesCore ==
  { NetworkError,
    Http(502, None),
    Http(200, Some(LocationsBody(Some("Invalid coordinate"), None))),
    Http(200, Some(LocationsBody(Some(""), Some(SomeLocations)))),
    Http(500, Some(LocationsBody(None, None))),
    Http(200, Some(LocationsBody(None, Some(<<>>)))),
    Http(200, Some(LocationsBody(None, Some(SomeLocations)))) }

DeparturesParamsCore ==
  { [region |-> "AU_NSW_Sydney", stopCodes |-> <<"200060", "200070">>,
     timeStamp |-> t, limit |-> l] :
      t \in {None, Some(EmptyString), Some(NaiveTime), Some(OffsetTime)},
      l \in {None, Some(0), Some(5)} }

Service(startTime, realTimeDeparture, status, vehicle) ==
  [startTime |-> startTime, realTimeDeparture |-> realTimeDeparture,
   realTimeStatus |-> status, serviceTripID |-> "trip-1",
   serviceName |-> Some("T1 North Shore"), serviceNumber |-> Some("T1"),
   serviceDirection |-> None, operator |-> Some("Sydney Trains"),
   mode |-> Some("train"), wheelchairAccessible |-> Some(TRUE),
   realtimeVehicle |-> vehicle]

Vehicle ==
  [id |-> "v1", label |-> None, lastUpdate |-> 16 * HourSecs,
   location |-> None, occupancy |-> None, wifi |-> None]

DeparturesBody(error, embarkationStops, stops) ==
  [error |-> error, embarkationStops |-> embarkationStops, stops |-> stops]

SomeEmbarkationStops ==
  << [stopCode |-> "200060",
      services |-> Some(<<Service(16 * HourSecs, Some(16 * HourSecs + 60),
                                  Some("IS_REAL_TIME"), Some(Vehicle)),
                          Service(17 * HourSecs, None, None, None)>>)],
     [stopCode |-> "200070",
      services |-> Some(<<Service(18 * HourSecs, Some(0),
                                  Some("CAPABLE"), None)>>)],
     [stopCode |-> "200080", services |-> None] >>

SomeStops ==
  << [code |-> Some("200060"), name |-> Some("Central Station")] >>

DeparturesResponsesCore ==
  { NetworkError,
    Http(502, None),
    Http(200, Some(DeparturesBody(Some("Unknown region"), None, None))),
    Http(200, Some(DeparturesBody(Some(""), Some(SomeEmbarkationStops), None))),
    Http(500, Some(DeparturesBody(None, None, None))),
    Http(200, Some(DeparturesBody(None, Some(SomeEmbarkationStops), None))),
    Http(200, Some(DeparturesBody(None, Some(SomeEmbarkationStops),
                                  Some(SomeStops)))) }

\* A handler not yet called.
NotInvoked ==
  /\ pc = "idle"
  /\ tool = "none"
  /\ params = None
  /\ requests = <<>>
  /\ responses = <<>>
  /\ timezone = None
  /\ result = None
  /\ failure = <<>>

\* One invocation, and no other in progress.
InvocationInit == NotInvoked /\ suspended = <<>>

\* One invocation of any of the four tools, with any of the upstream
\* responses.
Next ==
  \/ \E p \in RoutingParamsCore : InvokeRouting(p)
  \/ \E r \in RegionsResponsesCore : RegionsResponse(r)
  \/ \E r \in RoutingResponsesCore : RoutingResponse(r)
  \/ \E p \in SaveParamsCore : InvokeSave(p)
  \/ \E r \in SaveResponsesCore : SaveResponse(r)
  \/ \E p \in LocationsParamsCore : InvokeLocations(p)
  \/ \E r \in LocationsResponsesCore : LocationsResponse(r)
  \/ \E p \in DeparturesParamsCore : InvokeDepartures(p)
  \/ \E r \in DeparturesResponsesCore : DeparturesResponse(r)

(***************************************************************************)
(* Claims about the timezone helpers (checked under SpecTime).             *)
(***************************************************************************)
\* The offsets zone z can show for the wall-clock reading `wall`: o is one
\* when the instant wall - o has offset o in z.  Empty for a reading the
\* zone skips.
LocalOffsets(wall, z) ==
  { o \in {ZoneTable[z].before, ZoneTable[z].after} : OffsetAt(z, wall - o) = o }

\* C9: a departureTime/arrivalTime string that carries a "Z" suffix or an
\* explicit UTC offset is converted to the epoch seconds of its literal
\* instant, whatever the timezone passed along with it.
C9_OffsetQualifiedIsLiteral ==
  (/\ timeOut.op = "formatDateForTripGo"
   /\ timeIn.iso.sfx \in {"Z", "colon", "basic"})
  => timeOut.epoch = Some(LiteralInstant(timeIn.iso))

\* C10: for a zone with daylight saving and a wall-clock time that exists
\* in it, rendering zonedTimeToUtc's instant back in the zone gives that
\* wall-clock time, with an offset the zone has at that local time.
C10_RoundTrip ==
  (/\ timeOut.op = "roundTrip"
   /\ timeIn.zone \in DstZones
   /\ LocalOffsets(timeIn.iso.wall, timeIn.zone) # {})
  => /\ timeOut.rendered[1].wall = timeIn.iso.wall
     /\ \E o \in LocalOffsets(timeIn.iso.wall, timeIn.zone) :
          timeOut.rendered[1].offsetPart.offset = Some(o)

(***************************************************************************)
(* Claims about the region resolver (checked under SpecRegion).            *)
(***************************************************************************)
\* The regions of the list whose polygon is a polygon and contains c.
Containing(c, rs) ==
  { i \in DOMAIN rs : /\ ~CoordinateInPolygonThrows(rs[i].polygon)
                      /\ CoordinateInPolygon(c, rs[i].polygon) }

\* The regions of the list on which the polygon test throws.
Malformed(rs) == { i \in DOMAIN rs : CoordinateInPolygonThrows(rs[i].polygon) }

\* C7: getRegionForCoordinate returns the region of lowest index whose
\* polygon contains the coordinate: a region returned contains it and no
\* earlier region does; a containing region with no containing and no
\* malformed region before it is the one returned, whatever follows it;
\* and undefined is returned only when no region contains the coordinate.
C7_FirstMatchWins ==
  geoOut # None =>
    LET c == geoIn[1].coordinate
        rs == geoIn[1].regions
        found == geoOut[1]
    IN  /\ found > 0 =>
             /\ found \in Containing(c, rs)
             /\ \A j \in 1..(found - 1) : j \notin Containing(c, rs)
        /\ \A i \in Containing(c, rs) :
             (\A j \in 1..(i - 1) : j \notin Containing(c, rs) \cup Malformed(rs))
               => found = i
        /\ found = 0 => Containing(c, rs) = {}

\* Two different regions contain the coordinate and the earlier one was
\* returned.
C7_Witness ==
  /\ geoOut # None
  /\ geoOut[1] > 0
  /\ \E j \in Containing(geoIn[1].coordinate, geoIn[1].regions) :
       /\ j > geoOut[1]
       /\ geoIn[1].regions[j] # geoIn[1].regions[geoOut[1]]

(***************************************************************************)
(* Routing responses for the selection: every way of spreading up to       *)
(* MaxTrips trips with scores in 1..MaxScore over up to MaxGroups groups   *)
(* (a group may be empty).  The trip at position t of group g has id       *)
(* 10 * g + t.                                                             *)
(***************************************************************************)
RECURSIVE SumUpTo(_, _)
SumUpTo(sizes, n) == IF n = 0 THEN 0 ELSE SumUpTo(sizes, n - 1) + sizes[n]

GroupSizes ==
  { sizes \in UNION { [1..n -> 0..MaxTrips] : n \in 0..MaxGroups } :
      SumUpTo(sizes, Len(sizes)) <= MaxTrips }

GroupsOf(sizes, scores) ==
  [g \in DOMAIN sizes |->
     [trips |-> [t \in 1..sizes[g] |->
                   Trip(10 * g + t, scores[SumUpTo(sizes, g - 1) + t],
                        <<Segment(1)>>)]]]

\* The score lists for a list of group sizes: one score per trip.
ScoreLists(sizes) == [1..SumUpTo(sizes, Len(sizes)) -> 1..MaxScore]

FormatResponse(groups) ==
  Http(200, Some(RoutingBody(None, Some(groups), Some(<<WalkTemplate>>))))

\* Limits the schema accepts: none given, and whole numbers from -1 up.
RoutingParamsFormat ==
  { p \in RoutingParams({Coord(2, 2)}, {None}, {None},
                        {None} \cup { Some(n) : n \in -1..MaxGroups }) :
      p.modes = None }

RegionsResponsesFormat ==
  { Http(200, Some(RegionsBody(None, Some(<<SydneyRegion>>)))) }

\* The responses that can arrive: those to the request the handler awaits.
Arriving(at, rs) == IF pc = at THEN rs ELSE {}

NextFormat ==
  \/ \E p \in RoutingParamsFormat : InvokeRouting(p)
  \/ \E r \in RegionsResponsesFormat : RegionsResponse(r)
  \/ \E sizes \in Arriving("awaitRouting", GroupSizes) :
       \E scores \in ScoreLists(sizes) :
         RoutingResponse(FormatResponse(GroupsOf(sizes, scores)))

(***************************************************************************)
(* Routing responses for the segments: one trip whose segments refer to    *)
(* hash codes 1..MaxHash + 1, and a template list (or none) drawn from a   *)
(* pool in which the label, the action and the places go together.         *)
(***************************************************************************)
TemplatePool ==
  { Template(h, "", None, None) : h \in 1..MaxHash }
    \cup { Template(h, "Walk", Some("Walk to stop"), Some("George St")) :
             h \in 1..MaxHash }
    \cup { Template(h, "Bus", Some("Take the bus"), Some("Pitt St")) :
             h \in 1..MaxHash }

TemplateLists ==
  {None} \cup
  { Some(ts) : ts \in UNION { [1..n -> TemplatePool] : n \in 0..MaxTemplates } }

SegmentLists ==
  UNION { [1..n -> { Segment(h) : h \in 1..(MaxHash + 1) }] : n \in 0..MaxSegments }

SegmentsResponse(segs, templates) ==
  Http(200, Some(RoutingBody(None, Some(<<[trips |-> <<Trip(11, 1, segs)>>]>>),
                             templates)))

RoutingParamsSegments == { p \in RoutingParamsFormat : p.limit = None }

NextSegments ==
  \/ \E p \in RoutingParamsSegments : InvokeRouting(p)
  \/ \E r \in RegionsResponsesFormat : RegionsResponse(r)
  \/ \E segs \in Arriving("awaitRouting", SegmentLists) :
       \E templates \in TemplateLists :
         RoutingResponse(SegmentsResponse(segs, templates))

(***************************************************************************)
(* Routing responses for the durations: one trip of one segment, the trip  *)
(* arriving and the segment ending up to MaxSeconds seconds after or       *)
(* before they start.                                                      *)
(***************************************************************************)
Spans == (0 - MaxSeconds)..MaxSeconds

TimedSegment(span) ==
  [Segment(1) EXCEPT !.endTime = Segment(1).startTime + span]

TimedTrip(span, segments) ==
  [Trip(11, 1, segments) EXCEPT !.arrive = Trip(11, 1, segments).depart + span]

DurationsResponse(tripSpan, segmentSpan) ==
  Http(200, Some(RoutingBody(None,
                             Some(<<[trips |-> <<TimedTrip(tripSpan,
                                                   <<TimedSegment(segmentSpan)>>)>>]>>),
                             Some(<<WalkTemplate>>))))

NextDurations ==
  \/ \E p \in RoutingParamsSegments : InvokeRouting(p)
  \/ \E r \in RegionsResponsesFormat : RegionsResponse(r)
  \/ \E tripSpan \in Arriving("awaitRouting", Spans) :
       \E segmentSpan \in Spans :
         RoutingResponse(DurationsResponse(tripSpan, segmentSpan))

(***************************************************************************)
(* Routing invocations for the display timezone: origins inside both, one  *)
(* or neither of two overlapping polygons, naive times, and region lists   *)
(* of up to MaxRegions regions whose timezone is one of the table's DST    *)
(* zones or the empty string.                                              *)
(***************************************************************************)
ZonedRegionPool ==
  { [name |-> "Region", polygon |-> polygon, timezone |-> z] :
      polygon \in {SquareOpen, Triangle}, z \in {"", "Sydney", "NewYork"} }

ZonedRegionLists == UNION { [1..k -> ZonedRegionPool] : k \in 0..MaxRegions }

ZonedRegionsResponse(regions) == Http(200, Some(RegionsBody(None, Some(regions))))

RoutingParamsZoned ==
  { p \in RoutingParams({Coord(2, 2), Coord(1, 1), Coord(2, 4), Coord(0, 0)},
                        {None, Some(NaiveTime)}, {None, Some(NaiveTime)},
                        {None}) :
      p.modes = None }

NextZoned ==
  \/ \E p \in RoutingParamsZoned : InvokeRouting(p)
  \/ \E regions \in Arriving("awaitRegions", ZonedRegionLists) :
       RegionsResponse(ZonedRegionsResponse(regions))
  \/ \E groups \in Arriving("awaitRouting", {TwoGroups, <<TwoGroups[2]>>}) :
       RoutingResponse(FormatResponse(groups))

(***************************************************************************)
(* Concurrent invocations.  The handlers are async functions run by one    *)
(* event loop: a handler runs from one await to the next without           *)
(* interruption, and while it waits for its upstream response any other    *)
(* invocation may be called or resumed.  The variables pc .. failure are   *)
(* the locals of the invocation that runs next; `suspended` holds the      *)
(* locals of the others.  The module has no variable of its own besides    *)
(* the constant TRIPGO_API_BASE_URL, so nothing else is state.             *)
(***************************************************************************)
\* The locals of the invocation that runs next.
Running ==
  [pc |-> pc, tool |-> tool, params |-> params, requests |-> requests,
   responses |-> responses, timezone |-> timezone, result |-> result,
   failure |-> failure]

NotYetInvoked ==
  [pc |-> "idle", tool |-> "none", params |-> None, requests |-> <<>>,
   responses |-> <<>>, timezone |-> None, result |-> None, failure |-> <<>>]

\* The event loop turns to another invocation: this one stays where it is.
Resume(i) ==
  /\ i \in DOMAIN suspended
  /\ pc' = suspended[i].pc
  /\ tool' = suspended[i].tool
  /\ params' = suspended[i].params
  /\ requests' = suspended[i].requests
  /\ responses' = suspended[i].responses
  /\ timezone' = suspended[i].timezone
  /\ result' = suspended[i].result
  /\ failure' = suspended[i].failure
  /\ suspended' = [suspended EXCEPT ![i] = Running]
  /\ UNCHANGED <<timeVars, geoVars>>

ConcurrentInit ==
  /\ NotInvoked
  /\ suspended = [i \in 1..(MaxInvocations - 1) |-> NotYetInvoked]
  /\ timeIn = None
  /\ timeOut = TimeIdle
  /\ geoIn = None
  /\ geoOut = None

RoutingParamsConcurrent ==
  { p \in RoutingParams({Coord(2, 2)}, {Some(NaiveTime)}, {None}, {None}) :
      p.modes = None }

RegionsResponsesConcurrent ==
  { NetworkError,
    Http(200, Some(RegionsBody(None, Some(<<SydneyRegion>>)))),
    Http(200, Some(RegionsBody(None, Some(<<NewYorkRegion, SydneyRegion>>)))) }

RoutingResponsesConcurrent ==
  { Http(200, Some(RoutingBody(Some("No routes found"), None, None))),
    Http(200, Some(RoutingBody(None, Some(TwoGroups), Some(<<WalkTemplate>>)))) }

SaveResponsesConcurrent ==
  { Http(404, None),
    Http(200, Some(SaveBody(None, Some("https://tripgo.com/trip/1")))) }

LocationsParamsConcurrent ==
  { p \in LocationsParamsCore : p.radius = None /\ p.modes = None /\ p.limit = None }

LocationsResponsesConcurrent ==
  { Http(200, Some(LocationsBody(Some("Invalid coordinate"), None))),
    Http(200, Some(LocationsBody(None, Some(SomeLocations)))) }

DeparturesParamsConcurrent ==
  { p \in DeparturesParamsCore : p.timeStamp = None /\ p.limit = None }

DeparturesResponsesConcurrent ==
  { NetworkError,
    Http(200, Some(DeparturesBody(None, Some(SomeEmbarkationStops),
                                  Some(SomeStops)))) }

NextConcurrent ==
  \/ \E p \in RoutingParamsConcurrent : InvokeRouting(p)
  \/ \E r \in RegionsResponsesConcurrent : RegionsResponse(r)
  \/ \E r \in RoutingResponsesConcurrent : RoutingResponse(r)
  \/ \E p \in SaveParamsCore : InvokeSave(p)
  \/ \E r \in SaveResponsesConcurrent : SaveResponse(r)
  \/ \E p \in LocationsParamsConcurrent : InvokeLocations(p)
  \/ \E r \in LocationsResponsesConcurrent : LocationsResponse(r)
  \/ \E p \in DeparturesParamsConcurrent : InvokeDepartures(p)
  \/ \E r \in DeparturesResponsesConcurrent : DeparturesResponse(r)
  \/ \E i \in 1..(MaxInvocations - 1) : Resume(i)

(***************************************************************************)
(* Claims about a tool invocation (checked under Spec).                    *)
(***************************************************************************)
\* The invocation has received the response to its tool's own request
\* (for routing, the routing.json response that follows the regions one).
OwnResponseReceived ==
  Len(responses) = (IF tool = "routing" THEN 2 ELSE 1)

OwnResponse == responses[Len(responses)]

\* The thrown error's message contains the text.
MessageContains(text) == \E i \in DOMAIN failure : failure[i] = text

UpstreamCallFailed(r) ==
  \/ ~r.net
  \/ r.status \notin 200..299
  \/ (r.body # None /\ r.body[1].error # None /\ r.body[1].error[1] # "")

\* C5: an invocation one of whose upstream calls failed never returns a
\* result document.
C5_FailedCallReturnsNothing ==
  (\E i \in DOMAIN responses : UpstreamCallFailed(responses[i]))
  => result = None

\* The search parameters of the routing request, once it is sent.
RoutingRequestSent == tool = "routing" /\ Len(requests) = 2
HasParam(name) ==
  \E i \in DOMAIN requests[2].query : requests[2].query[i][1] = name
ParamValues(name) ==
  { requests[2].query[i][2] :
      i \in { k \in DOMAIN requests[2].query : requests[2].query[k][1] = name } }

\* C6 as stated: the routing request never carries both departAfter and
\* arriveBefore; a departureTime given by the caller, whatever the string,
\* makes departAfter (derived from it) the only one sent; an arrivalTime
\* given alone makes arriveBefore the only one sent; neither given, neither
\* sent.
C6_GivenTimeDecides ==
  RoutingRequestSent =>
    LET p == params[1]
    IN  /\ ~(HasParam("departAfter") /\ HasParam("arriveBefore"))
        /\ p.departureTime # None =>
             /\ ~HasParam("arriveBefore")
             /\ ParamValues("departAfter")
                  \subseteq FormatDateForTripGo(p.departureTime[1], timezone[1])
             /\ ParamValues("departAfter") # {}
        /\ (p.departureTime = None /\ p.arrivalTime # None) =>
             /\ ~HasParam("departAfter")
             /\ HasParam("arriveBefore")
        /\ (p.departureTime = None /\ p.arrivalTime = None) =>
             /\ ~HasParam("departAfter")
             /\ ~HasParam("arriveBefore")

\* C6, amended: the same with "given" read as "given and not the empty
\* string": an empty departureTime or arrivalTime counts as not given.
C6_NonEmptyTimeDecides ==
  RoutingRequestSent =>
    LET p == params[1]
        departureGiven == p.departureTime # None /\ p.departureTime[1] # EmptyString
        arrivalGiven == p.arrivalTime # None /\ p.arrivalTime[1] # EmptyString
    IN  /\ ~(HasParam("departAfter") /\ HasParam("arriveBefore"))
        /\ departureGiven =>
             /\ ~HasParam("arriveBefore")
             /\ ParamValues("departAfter")
                  \subseteq FormatDateForTripGo(p.departureTime[1], timezone[1])
             /\ ParamValues("departAfter") # {}
        /\ (~departureGiven /\ arrivalGiven) =>
             /\ ~HasParam("departAfter")
             /\ ParamValues("arriveBefore")
                  \subseteq FormatDateForTripGo(p.arrivalTime[1], timezone[1])
             /\ ParamValues("arriveBefore") # {}
        /\ (~departureGiven /\ ~arrivalGiven) =>
             /\ ~HasParam("departAfter")
             /\ ~HasParam("arriveBefore")

\* Both times were given and only departAfter was sent.
C6_Witness ==
  /\ RoutingRequestSent
  /\ params[1].departureTime = Some(NaiveTime)
  /\ params[1].arrivalTime = Some(NaiveTime)
  /\ HasParam("departAfter")
  /\ ~HasParam("arriveBefore")

\* The regions call succeeded, the polygon test applies to every region of
\* the list, and no region contains the origin.
NoRegionContainsOrigin ==
  /\ tool = "routing"
  /\ Len(responses) >= 1
  /\ FetchFailure(responses[1]) = <<>>
  /\ responses[1].body[1].regions # None
  /\ LET regions == responses[1].body[1].regions[1]
     IN  \A i \in DOMAIN regions :
           /\ ~CoordinateInPolygonThrows(regions[i].polygon)
           /\ ~CoordinateInPolygon(params[1].from, regions[i].polygon)

\* C8: when no region of a successfully fetched list (the empty list
\* included) contains the origin, region resolution raises nothing, the
\* routing request is sent, and "UTC" is the timezone: naive times of the
\* request are read in UTC and the trips' times are shown in UTC.
C8_NoMatchFallsBackToUtc ==
  NoRegionContainsOrigin =>
    /\ Len(requests) = 2
    /\ requests[2].path = "/routing.json"
    /\ Len(responses) = 1 => pc = "awaitRouting"
    /\ timezone = Some("UTC")
    /\ params[1].departureTime = Some(NaiveTime)
         => ParamValues("departAfter") = {Some(NaiveTime.wall)}
    /\ pc = "done" =>
         \A k \in DOMAIN result[1].trips :
           /\ result[1].trips[k].depart.offsetPart = LongOffset(0)
           /\ result[1].trips[k].arrive.offsetPart = LongOffset(0)
           /\ result[1].trips[k].depart.wall =
                result[1].trips[k].arrive.wall
                  - 60 * result[1].trips[k].totalDuration - 30

\* A routing invocation whose origin lies outside the only region listed
\* returned trips for a naive departure time.
C8_Witness ==
  /\ NoRegionContainsOrigin
  /\ responses[1].body[1].regions[1] # <<>>
  /\ params[1].departureTime = Some(NaiveTime)
  /\ pc = "done"
  /\ result[1].trips # <<>>

(***************************************************************************)
(* Claims about the selection (checked under SpecFormat).                  *)
(***************************************************************************)
\* The routing invocation returned a document for a response with groups.
RoutingDone ==
  /\ tool = "routing"
  /\ pc = "done"
  /\ responses[2].body[1].groups # None

InGroups == responses[2].body[1].groups[1]
GivenLimit == params[1].limit[1]
OutTrips == result[1].trips

Least(S) == CHOOSE x \in S : \A y \in S : x <= y

\* The lowest weightedScore of a group's trips.
LowestScore(group) ==
  Least({ group.trips[t].weightedScore : t \in DOMAIN group.trips })

\* The ways of ranking the groups by lowest score and keeping the first n:
\* sequences of min(n, number of groups) distinct groups, ascending by
\* lowest score, none of the groups left out scoring lower than a kept one.
Rankings(groups, n) ==
  LET kept == IF n < Len(groups) THEN n ELSE Len(groups)
  IN  { order \in [1..kept -> DOMAIN groups] :
          /\ \A i, k \in 1..kept : i # k => order[i] # order[k]
          /\ \A i, k \in 1..kept :
               i < k => LowestScore(groups[order[i]]) <= LowestScore(groups[order[k]])
          /\ \A g \in DOMAIN groups :
               (\A i \in 1..kept : order[i] # g) =>
                 \A i \in 1..kept :
                   LowestScore(groups[order[i]]) <= LowestScore(groups[g]) }

\* The number of trips a kept group contributes.
ChunkSize(group) == IF Len(group.trips) < 2 THEN Len(group.trips) ELSE 2

RECURSIVE ChunkStart(_, _, _)
ChunkStart(groups, order, i) ==
  IF i = 1 THEN 0
  ELSE ChunkStart(groups, order, i - 1) + ChunkSize(groups[order[i - 1]])

\* out[start + 1 .. start + ChunkSize] are the (at most) two lowest scoring
\* trips of the group, best first.
IsBestTwo(out, start, group) ==
  LET picked == { t \in DOMAIN group.trips :
                    \E k \in 1..ChunkSize(group) : out[start + k].id = group.trips[t].id }
  IN  /\ Cardinality(picked) = ChunkSize(group)
      /\ \A k \in 1..ChunkSize(group) :
           \E t \in picked : /\ out[start + k].id = group.trips[t].id
                             /\ out[start + k].score = group.trips[t].weightedScore
      /\ \A k \in 1..(ChunkSize(group) - 1) :
           out[start + k].score <= out[start + k + 1].score
      /\ \A t \in DOMAIN group.trips :
           t \notin picked =>
             \A k \in 1..ChunkSize(group) : out[start + k].score <= group.trips[t].weightedScore

\* C1: for a response whose groups are all non-empty and a limit N >= 0,
\* the output trip list is the groups ranked ascending by lowest score, cut
\* to the first N, each kept group contributing its (at most) two lowest
\* scoring trips, best first, in the order of the groups.
C1_SelectionIsExact ==
  (/\ RoutingDone
   /\ \A g \in DOMAIN InGroups : InGroups[g].trips # <<>>
   /\ GivenLimit >= 0)
  => \E order \in Rankings(InGroups, GivenLimit) :
       /\ Len(OutTrips) = ChunkStart(InGroups, order, Len(order) + 1)
       /\ \A i \in DOMAIN order :
            IsBestTwo(OutTrips, ChunkStart(InGroups, order, i), InGroups[order[i]])

\* Three groups and a limit of 2: the second group ranks first, the third
\* gives its two trips in the reverse of the response's order, and the
\* first group is dropped.
C1_Witness ==
  /\ RoutingDone
  /\ Len(InGroups) = 3
  /\ GivenLimit = 2
  /\ [k \in DOMAIN OutTrips |-> OutTrips[k].id] = <<21, 32, 31>>

\* The groups that have a trip in the output.
GroupsInOutput ==
  { g \in DOMAIN InGroups :
      \E k \in DOMAIN OutTrips, t \in DOMAIN InGroups[g].trips :
        OutTrips[k].id = InGroups[g].trips[t].id }

\* The number of groups that rank before the group, by lowest score.
RankedBefore(g) ==
  Cardinality({ h \in DOMAIN InGroups :
                  /\ InGroups[h].trips # <<>>
                  /\ LowestScore(InGroups[h]) < LowestScore(InGroups[g]) })

\* C2: for every limit N the schema accepts, the output has trips from at
\* most N groups, at most 2 * N trips, and no trip of a group ranked beyond
\* the first N (for a negative N: no trip at all).
C2_AtMostLimitGroups ==
  RoutingDone =>
    LET atMost == IF GivenLimit < 0 THEN 0 ELSE GivenLimit
    IN  /\ Cardinality(GroupsInOutput) <= atMost
        /\ Len(OutTrips) <= 2 * atMost
        /\ \A g \in GroupsInOutput : RankedBefore(g) < atMost

(***************************************************************************)
(* Claims about the segments (checked under SpecSegments).                 *)
(***************************************************************************)
InTemplates == responses[2].body[1].segmentTemplates

\* The positions of the templates with the hash code.
Matching(hashCode) ==
  IF InTemplates = None THEN {}
  ELSE { i \in DOMAIN InTemplates[1] : InTemplates[1][i].hashCode = hashCode }

PlaceOf(opt) == IF opt = None THEN None ELSE opt[1].address

\* The routing response is a result: it arrived, parsed, without an error.
RoutingResultReceived ==
  /\ tool = "routing"
  /\ Len(responses) = 2
  /\ responses[2].net
  /\ responses[2].body # None
  /\ responses[2].body[1].error = None
  /\ responses[2].body[1].groups # None
  /\ \A g \in DOMAIN InGroups : InGroups[g].trips # <<>>

\* The input trip a formatted trip was made from.
SourceOf(out) ==
  CHOOSE trip \in UNION { { InGroups[g].trips[t] : t \in DOMAIN InGroups[g].trips } :
                            g \in DOMAIN InGroups } :
    trip.id = out.id

\* A segment that matches no template has the placeholder mode and no
\* action, from or to.
UnmatchedIsPlaceholder(segment, out) ==
  Matching(segment.segmentTemplateHashCode) = {} =>
    /\ out.mode = "Unknown Mode"
    /\ out.action = None
    /\ out.from = None
    /\ out.to = None

\* C3 as stated: the routing invocation returns; in every kept trip a
\* segment that matches no template is formatted with mode "Unknown Mode"
\* and no action, from or to, and a segment that matches takes mode, action,
\* from and to from the first template with its hash code.
C3_FirstTemplateGivesAll ==
  RoutingResultReceived =>
    /\ pc = "done"
    /\ \A k \in DOMAIN OutTrips :
         LET trip == SourceOf(OutTrips[k])
         IN  /\ DOMAIN OutTrips[k].segments = DOMAIN trip.segments
             /\ \A j \in DOMAIN trip.segments :
                  LET segment == trip.segments[j]
                      out == OutTrips[k].segments[j]
                      hits == Matching(segment.segmentTemplateHashCode)
                  IN  /\ UnmatchedIsPlaceholder(segment, out)
                      /\ hits # {} =>
                           LET first == InTemplates[1][Least(hits)]
                           IN  /\ out.mode = first.modeInfo.alt
                               /\ out.action = first.action
                               /\ out.from = PlaceOf(first.from)
                               /\ out.to = PlaceOf(first.to)

\* C3, amended: the same, except that a matching segment whose first
\* template has an empty mode label is given the mode "Unknown Mode".
C3_FirstTemplateUnlessUnlabelled ==
  RoutingResultReceived =>
    /\ pc = "done"
    /\ \A k \in DOMAIN OutTrips :
         LET trip == SourceOf(OutTrips[k])
         IN  /\ DOMAIN OutTrips[k].segments = DOMAIN trip.segments
             /\ \A j \in DOMAIN trip.segments :
                  LET segment == trip.segments[j]
                      out == OutTrips[k].segments[j]
                      hits == Matching(segment.segmentTemplateHashCode)
                  IN  /\ UnmatchedIsPlaceholder(segment, out)
                      /\ hits # {} =>
                           LET first == InTemplates[1][Least(hits)]
                           IN  /\ out.mode = IF first.modeInfo.alt = ""
                                             THEN "Unknown Mode"
                                             ELSE first.modeInfo.alt
                               /\ out.action = first.action
                               /\ out.from = PlaceOf(first.from)
                               /\ out.to = PlaceOf(first.to)

\* A trip with an unmatched segment and a segment that two different
\* templates match was formatted.
C3_Witness ==
  /\ RoutingResultReceived
  /\ pc = "done"
  /\ InTemplates # None
  /\ Len(OutTrips) = 1
  /\ Len(OutTrips[1].segments) = 2
  /\ Matching(SourceOf(OutTrips[1]).segments[1].segmentTemplateHashCode) = {}
  /\ Matching(SourceOf(OutTrips[1]).segments[2].segmentTemplateHashCode) = {1, 2}
  /\ InTemplates[1][1].modeInfo.alt = "Bus"
  /\ InTemplates[1][2].modeInfo.alt = "Walk"
  /\ OutTrips[1].segments[1].mode = "Unknown Mode"
  /\ OutTrips[1].segments[2].mode = "Bus"
  /\ OutTrips[1].segments[2].from = Some("Pitt St")

(***************************************************************************)
(* Claims about the routing output's time strings (checked under Spec).    *)
(***************************************************************************)
\* The text toISOStringInTimezone puts after the seconds is a signed
\* offset and nothing else.
IsSignedOffset(offsetPart) ==
  /\ offsetPart.prefix = ""
  /\ offsetPart.offset # None

\* C11: every depart and arrive string of the routing output is the date
\* and time followed by a signed offset +HH:MM or -HH:MM, with no other
\* text before or after the offset, in every timezone the routing tool
\* resolves (a region's zone or "UTC").
C11_TimeStringsEndInSignedOffset ==
  (tool = "routing" /\ pc = "done") =>
    \A k \in DOMAIN result[1].trips :
      /\ IsSignedOffset(result[1].trips[k].depart.offsetPart)
      /\ IsSignedOffset(result[1].trips[k].arrive.offsetPart)

(***************************************************************************)
(* Claims about the departures output (checked under Spec).                *)
(***************************************************************************)
\* The departures invocation returned a document for a response with
\* embarkation stops.
DeparturesDone ==
  /\ tool = "departures"
  /\ pc = "done"
  /\ responses[1].body[1].embarkationStops # None

InEmbarkationStops == responses[1].body[1].embarkationStops[1]
InStops == responses[1].body[1].stops

\* The name of the stop the stops list has for the code (None if the list
\* is absent or has no such stop).
NameOfStop(stopCode) ==
  IF InStops = None THEN None
  ELSE LET hits == { i \in DOMAIN InStops[1] : InStops[1][i].code = Some(stopCode) }
       IN  IF hits = {} THEN None ELSE InStops[1][Least(hits)].name

\* The stop name each departure of the output is to carry, in output order.
ExpectedStopNames ==
  Flatten([e \in DOMAIN InEmbarkationStops |->
             IF InEmbarkationStops[e].services = None THEN <<>>
             ELSE [k \in DOMAIN InEmbarkationStops[e].services[1] |->
                     NameOfStop(InEmbarkationStops[e].stopCode)]])

\* The stop name a formatted departure carries (None if it has none).
CarriedStopName(departure) ==
  IF "stopName" \in DOMAIN departure THEN departure.stopName ELSE None

\* C12: every service of every embarkation stop gives one departure, which
\* carries the name the stops list has for the embarkation stop's code, or
\* no stop name when the list is absent or lacks the code; the operation
\* does not fail on a missing stop.
C12_DepartureCarriesStopName ==
  DeparturesDone =>
    /\ Len(result[1].departures) = Len(ExpectedStopNames)
    /\ \A i \in DOMAIN result[1].departures :
         CarriedStopName(result[1].departures[i]) = ExpectedStopNames[i]

(***************************************************************************)
(* Locations responses for the flattening: a group in which each of the    *)
(* six categories is missing or has 0..MaxPerCategory locations, alone or  *)
(* before or after a second group.  The location at position k of          *)
(* category c of group g has lat = g and lng = 10 * c + k.                 *)
(***************************************************************************)
LocationAt(g, c, k) ==
  [lat |-> g, lng |-> 10 * c + k, name |-> Some("Central"),
   address |-> Some("1 Pitt St"), code |-> Some("200060"),
   region |-> Some("AU_NSW_Sydney"), services |-> None]

\* A category of `shape`: missing (None) or a list of shape[1] locations.
CategoryAt(g, c, shape) ==
  IF shape = None THEN None
  ELSE Some([k \in 1..shape[1] |-> LocationAt(g, c, k)])

CategoryShapes == {None} \cup { Some(n) : n \in 0..MaxPerCategory }

GroupShapes == [DOMAIN Categories -> CategoryShapes]

GroupAt(g, shapes) ==
  [key |-> "2_2", hashCode |-> g,
   stops |-> CategoryAt(g, 1, shapes[1]),
   bikePods |-> CategoryAt(g, 2, shapes[2]),
   carParks |-> CategoryAt(g, 3, shapes[3]),
   carPods |-> CategoryAt(g, 4, shapes[4]),
   carRentals |-> CategoryAt(g, 5, shapes[5]),
   freeFloating |-> CategoryAt(g, 6, shapes[6])]

\* The second group: one stop, no bike pods, one free-floating vehicle.
OtherShapes ==
  [c \in DOMAIN Categories |->
     IF c \in {1, 6} THEN Some(1) ELSE IF c = 2 THEN Some(0) ELSE None]

GroupLists(shapes) ==
  { <<GroupAt(1, shapes)>>,
    <<GroupAt(1, shapes), GroupAt(2, OtherShapes)>>,
    <<GroupAt(1, OtherShapes), GroupAt(2, shapes)>> }

FlatResponse(groups) == Http(200, Some(LocationsBody(None, Some(groups))))

LocationsParamsFlat ==
  { p \in LocationsParamsCore : p.radius = None /\ p.modes = None /\ p.limit = Some(5) }

NextLocations ==
  \/ \E p \in LocationsParamsFlat : InvokeLocations(p)
  \/ \E shapes \in Arriving("awaitLocations", GroupShapes) :
       \E groups \in GroupLists(shapes) :
         LocationsResponse(FlatResponse(groups))

\* The locations responses above, and those without groups: the field
\* missing, and the empty list.
NoGroupsResponses ==
  { Http(200, Some(LocationsBody(None, None))),
    Http(200, Some(LocationsBody(None, Some(<<>>)))) }

NextTotals ==
  \/ \E p \in LocationsParamsFlat : InvokeLocations(p)
  \/ \E shapes \in Arriving("awaitLocations", GroupShapes) :
       \E groups \in GroupLists(shapes) :
         LocationsResponse(FlatResponse(groups))
  \/ \E r \in Arriving("awaitLocations", NoGroupsResponses) :
       LocationsResponse(r)

(***************************************************************************)
(* Claims about the locations output (checked under SpecLocations).        *)
(***************************************************************************)
\* The locations invocation returned a document for a response with groups.
LocationsDone ==
  /\ tool = "locations"
  /\ pc = "done"
  /\ responses[1].body[1].groups # None

InLocationGroups == responses[1].body[1].groups[1]
OutLocations == result[1].locations

\* The number of locations category c of upstream group g has (0 when the
\* category is missing).
UpstreamCount(g, c) ==
  IF InLocationGroups[g][Categories[c]] = None THEN 0
  ELSE Len(InLocationGroups[g][Categories[c]][1])

\* The entries of the flattened list that come from category c of group g.
EntriesOf(g, c) ==
  { i \in DOMAIN OutLocations :
      /\ OutLocations[i].lat = g
      /\ OutLocations[i].type = CategoryTypes[c] }

\* C13: every returned group has a locationCounts record with the six
\* category counts, each a non-negative integer; a category that is empty
\* or missing upstream has count 0 and no entry in the flattened list.
C13_CountsPresentAndZeroWhenEmpty ==
  LocationsDone =>
    /\ result[1].groups # None
    /\ DOMAIN result[1].groups[1] = DOMAIN InLocationGroups
    /\ \A g \in DOMAIN InLocationGroups :
         LET counts == result[1].groups[1][g].locationCounts
         IN  /\ DOMAIN counts = { Categories[c] : c \in DOMAIN Categories }
             /\ \A c \in DOMAIN Categories :
                  /\ counts[Categories[c]] \in Nat
                  /\ counts[Categories[c]] = UpstreamCount(g, c)
                  /\ UpstreamCount(g, c) = 0 =>
                       /\ counts[Categories[c]] = 0
                       /\ EntriesOf(g, c) = {}

\* A group with a missing category, an empty category and a category of
\* two locations was summarised.
C13_Witness ==
  /\ LocationsDone
  /\ Len(InLocationGroups) = 2
  /\ InLocationGroups[1].stops = None
  /\ InLocationGroups[1].bikePods = Some(<<>>)
  /\ UpstreamCount(1, 3) = 2
  /\ result[1].groups[1][1].locationCounts.stops = 0
  /\ result[1].groups[1][1].locationCounts.bikePods = 0
  /\ result[1].groups[1][1].locationCounts.carParks = 2
  /\ Len(OutLocations) > 2

\* The upstream locations in upstream order: group by group, category by
\* category, item by item, each as <<group, category, item>>.
UpstreamOrder ==
  Flatten([g \in DOMAIN InLocationGroups |->
             Flatten([c \in DOMAIN Categories |->
                        [k \in 1..UpstreamCount(g, c) |-> <<g, c, k>>]])])

\* C20: the flattened list has every upstream location exactly once and
\* nothing else, in upstream order (group by group, category by category,
\* item by item), each entry with the type of its category; nothing is
\* ranked, filtered or truncated.
C20_FlattenedInUpstreamOrder ==
  LocationsDone =>
    LET order == UpstreamOrder
        out == OutLocations
        groups == InLocationGroups
    IN  /\ Len(out) = Len(order)
        /\ result[1].totalLocations = Len(order)
        /\ \A i \in DOMAIN out :
             LET g == order[i][1]
                 c == order[i][2]
                 k == order[i][3]
             IN  /\ out[i].lat = groups[g][Categories[c]][1][k].lat
                 /\ out[i].lng = groups[g][Categories[c]][1][k].lng
                 /\ out[i].type = CategoryTypes[c]

\* Two groups with locations in several categories were flattened: the
\* first group's two stops and its free-floating vehicle come before the
\* second group's stop.
C20_Witness ==
  /\ LocationsDone
  /\ Len(InLocationGroups) = 2
  /\ Len(OutLocations) = 5
  /\ [i \in 1..4 |-> <<OutLocations[i].lat, OutLocations[i].lng, OutLocations[i].type>>]
       = << <<1, 11, "stop">>, <<1, 12, "stop">>, <<1, 61, "freeFloating">>,
            <<2, 11, "stop">> >>

(***************************************************************************)
(* Claims about the upstream requests (checked under Spec).                *)
(***************************************************************************)
\* The path of the one request each single-call tool makes.
PathOf(t) ==
  CASE t = "locations"  -> "/locations.json"
    [] t = "departures" -> "/departures.json"

\* The order of a routing invocation's calls, whatever the regions
\* response was: regions first, routing second and only after the regions
\* response and the resolution of the origin's region, and nothing else.
RoutingCallsInSequence ==
  tool = "routing" =>
    /\ Len(requests) \in {1, 2}
    /\ requests[1].path = "/regions.json"
    /\ Len(requests) = 2 =>
         /\ requests[2].path = "/routing.json"
         /\ Len(responses) >= 1
         /\ timezone # None
    /\ Len(responses) <= Len(requests)

\* Each of the other tools makes exactly one call.
OtherToolsCallOnce ==
  /\ tool \in {"locations", "departures"} =>
       Len(requests) = 1 /\ requests[1].path = PathOf(tool)
  /\ tool = "save" =>
       /\ Len(requests) = 1
       /\ requests[1].base = params[1].tripURL.base
       /\ requests[1].path = params[1].tripURL.path

\* C14: a routing invocation sends the regions request first, sends the
\* routing request only after the regions response has arrived and the
\* origin's region is resolved, never sends it when the regions call
\* failed (a network error, a non-2xx status or an error field), and makes
\* no other call; the other three tools make exactly one call each.
C14_CallsInSequence ==
  /\ RoutingCallsInSequence
  /\ OtherToolsCallOnce
  /\ (tool = "routing" /\ Len(responses) >= 1 /\ UpstreamCallFailed(responses[1]))
       => Len(requests) = 1

\* C15: every upstream request of every tool (regions, routing, save-trip,
\* locations, departures) carries the X-TripGo-Key header with the API key
\* the tools were registered with.
C15_EveryRequestCarriesKey ==
  \A i \in DOMAIN requests : requests[i].key = ApiKey

\* A routing invocation has sent both of its requests, each with the key.
C15_Witness ==
  /\ tool = "routing"
  /\ Len(requests) = 2
  /\ requests[1].path = "/regions.json"
  /\ requests[1].key = ApiKey
  /\ requests[2].path = "/routing.json"
  /\ requests[2].key = ApiKey

(***************************************************************************)
(* coordinateInPolygon on a polygon as given and on the same polygon with  *)
(* its first vertex repeated at the end.                                   *)
(***************************************************************************)
\* The steps the polyline encoding stores for a vertex sequence.
Encode(vertices) ==
  [i \in DOMAIN vertices |->
     IF i = 1 THEN vertices[1]
     ELSE <<vertices[i][1] - vertices[i - 1][1],
            vertices[i][2] - vertices[i - 1][2]>>]

\* The encoded polygon with one more step, back to the first vertex.
PreClosed(enc) ==
  LET points == Decode(enc)
  IN  Append(enc, <<points[1][1] - points[Len(points)][1],
                    points[1][2] - points[Len(points)][2]>>)

\* Vertex sequences of up to MaxVertices corners of the square.
PolygonVertices == { <<1, 1>>, <<1, 3>>, <<3, 3>>, <<3, 1>> }
EncodedPolygons ==
  { Encode(vertices) :
      vertices \in UNION { [1..n -> PolygonVertices] : n \in 1..MaxVertices } }

\* What a call of coordinateInPolygon comes to, and the ring it hands to
\* turf.
ContainsOutcome(coordinate, enc) ==
  [ring |-> ClosePolygon(PolygonCoords(Decode(enc))),
   answer |-> IF CoordinateInPolygonThrows(enc) THEN "throws"
              ELSE IF CoordinateInPolygon(coordinate, enc) THEN "inside"
              ELSE "outside"]

PolygonInit ==
  /\ geoIn \in { Some([coordinate |-> c, polygon |-> enc]) :
                   c \in Coordinates, enc \in EncodedPolygons }
  /\ geoOut = None

\* coordinateInPolygon(coordinate, polygon) and
\* coordinateInPolygon(coordinate, the polygon pre-closed)
ApplyContains ==
  /\ geoOut = None
  /\ UNCHANGED <<invVars, timeVars, suspended>>
  /\ geoOut' = Some([given |-> ContainsOutcome(geoIn[1].coordinate, geoIn[1].polygon),
                     preClosed |-> ContainsOutcome(geoIn[1].coordinate,
                                                   PreClosed(geoIn[1].polygon))])
  /\ UNCHANGED geoIn

PolygonNext == ApplyContains

(***************************************************************************)
(* Claims about the polygon test (checked under SpecPolygon).              *)
(***************************************************************************)
\* The vertex sequence was given unclosed: its last vertex is not its first.
GivenUnclosed ==
  LET points == Decode(geoIn[1].polygon)
  IN  points[1] # points[Len(points)]

\* C16: for a polygon given unclosed, coordinateInPolygon comes to the same
\* for the polygon as given and for it with the first vertex repeated at
\* the end: the first vertex is appended to the unclosed ring, the
\* pre-closed ring is handed on unchanged, and the answers are equal.
C16_ClosingIsIdempotent ==
  (geoOut # None /\ GivenUnclosed) =>
    /\ geoOut[1].preClosed.ring = PolygonCoords(Decode(PreClosed(geoIn[1].polygon)))
    /\ geoOut[1].given.ring = geoOut[1].preClosed.ring
    /\ geoOut[1].given.answer = geoOut[1].preClosed.answer

\* The unclosed square was tested with a point inside it.
C16_Witness ==
  /\ geoOut # None
  /\ GivenUnclosed
  /\ geoIn[1].polygon = SquareOpen
  /\ geoIn[1].coordinate = [lat |-> 2, lng |-> 2]
  /\ geoOut[1].given.answer = "inside"
  /\ geoOut[1].preClosed.answer = "inside"
  /\ Len(geoOut[1].preClosed.ring) = 5

(***************************************************************************)
(* Further claims about the selection (checked under SpecFormat).          *)
(***************************************************************************)
\* The routing response arrived, parsed, without an error field and with a
\* groups list.
RoutingGroupsReceived ==
  /\ tool = "routing"
  /\ Len(responses) = 2
  /\ responses[2].net
  /\ responses[2].body # None
  /\ responses[2].body[1].error = None
  /\ responses[2].body[1].groups # None

\* The groups of the response that have trips, in the response's order.
RECURSIVE WithTrips(_)
WithTrips(groups) ==
  IF groups = <<>> THEN <<>>
  ELSE IF Head(groups).trips = <<>> THEN WithTrips(Tail(groups))
  ELSE <<Head(groups)>> \o WithTrips(Tail(groups))

\* `out` is the selection from the groups for the limit n: the groups
\* ranked by lowest score, the first n kept, each giving its (at most) two
\* lowest scoring trips, best first.
IsSelection(out, groups, n) ==
  \E order \in Rankings(groups, n) :
    /\ Len(out) = ChunkStart(groups, order, Len(order) + 1)
    /\ \A i \in DOMAIN order :
         IsBestTwo(out, ChunkStart(groups, order, i), groups[order[i]])

\* C17: a group with zero trips is skipped: the routing operation does not
\* fail, and its output is the selection from the other groups.
C17_EmptyGroupIsSkipped ==
  (/\ RoutingGroupsReceived
   /\ \E g \in DOMAIN InGroups : InGroups[g].trips = <<>>
   /\ GivenLimit >= 0)
  => /\ pc = "done"
     /\ IsSelection(OutTrips, WithTrips(InGroups), GivenLimit)

\* The group an output trip comes from and its position in that group, as
\* the trip ids of the responses give them.
GroupOfTrip(out) == out.id \div 10
PositionOfTrip(out) == out.id % 10

\* C18: both sorts are stable.  Trips of one group with equal weightedScore
\* keep their upstream order and the ones kept are the earliest among the
\* ties; groups with equal lowest score keep their upstream order and the
\* ones kept at the limit are the earlier among the ties.
C18_SortsAreStable ==
  (/\ RoutingDone
   /\ \A g \in DOMAIN InGroups : InGroups[g].trips # <<>>
   /\ GivenLimit >= 0)
  => LET out == OutTrips
         groups == InGroups
         kept == { GroupOfTrip(out[i]) : i \in DOMAIN out }
     IN  /\ \A i, j \in DOMAIN out :
              (/\ i < j
               /\ GroupOfTrip(out[i]) = GroupOfTrip(out[j])
               /\ out[i].score = out[j].score)
              => PositionOfTrip(out[i]) < PositionOfTrip(out[j])
         /\ \A i \in DOMAIN out :
              \A t \in DOMAIN groups[GroupOfTrip(out[i])].trips :
                (/\ groups[GroupOfTrip(out[i])].trips[t].weightedScore = out[i].score
                 /\ \A j \in DOMAIN out :
                      out[j].id # groups[GroupOfTrip(out[i])].trips[t].id)
                => PositionOfTrip(out[i]) < t
         /\ \A i, j \in DOMAIN out :
              (/\ i < j
               /\ GroupOfTrip(out[i]) # GroupOfTrip(out[j])
               /\ LowestScore(groups[GroupOfTrip(out[i])])
                    = LowestScore(groups[GroupOfTrip(out[j])]))
              => GroupOfTrip(out[i]) < GroupOfTrip(out[j])
         /\ \A h \in kept :
              \A g \in DOMAIN groups :
                (g \notin kept /\ LowestScore(groups[g]) = LowestScore(groups[h]))
                => h < g

\* Two groups of equal lowest score and a limit of 1: the first group is
\* kept, and of its three trips of equal score the first two, in order.
C18_Witness ==
  /\ RoutingDone
  /\ GivenLimit = 1
  /\ Len(InGroups) = 2
  /\ Len(InGroups[1].trips) = 3
  /\ \A t \in 1..3 : InGroups[1].trips[t].weightedScore = 1
  /\ LowestScore(InGroups[2]) = 1
  /\ [k \in DOMAIN OutTrips |-> OutTrips[k].id] = <<11, 12>>

\* d is the whole number of minutes in a span of seconds: 60d <= span < 60(d+1).
WholeMinutes(d, span) == 60 * d <= span /\ span < 60 * (d + 1)

\* C19: a formatted segment whose endTime is not before its startTime has
\* as duration the whole minutes of endTime - startTime, and a formatted
\* trip whose arrive is not before its depart has as totalDuration the whole
\* minutes of arrive - depart; neither is negative.
C19_DurationsAreWholeMinutes ==
  RoutingDone
  => \A i \in DOMAIN OutTrips :
       LET out == OutTrips[i]
           trip == SourceOf(out)
       IN  /\ trip.arrive >= trip.depart
                => /\ WholeMinutes(out.totalDuration, trip.arrive - trip.depart)
                   /\ out.totalDuration >= 0
           /\ \A k \in DOMAIN out.segments :
                trip.segments[k].endTime >= trip.segments[k].startTime
                => /\ WholeMinutes(out.segments[k].duration,
                                   trip.segments[k].endTime
                                     - trip.segments[k].startTime)
                   /\ out.segments[k].duration >= 0

\* A trip of 119 seconds with a segment of 60 seconds: 1 minute each.
C19_Witness ==
  /\ RoutingDone
  /\ Len(OutTrips) = 1
  /\ SourceOf(OutTrips[1]).arrive - SourceOf(OutTrips[1]).depart = 119
  /\ SourceOf(OutTrips[1]).segments[1].endTime
       - SourceOf(OutTrips[1]).segments[1].startTime = 60
  /\ OutTrips[1].totalDuration = 1
  /\ OutTrips[1].segments[1].duration = 1

(***************************************************************************)
(* Claims about the display timezone (checked under SpecZoned).            *)
(***************************************************************************)
\* The regions of the fetched list and the first of them that contains the
\* origin (0 if none does).
FetchedRegions == responses[1].body[1].regions[1]

FirstContaining ==
  LET hits == Containing(params[1].from, FetchedRegions)
  IN  IF hits = {} THEN 0 ELSE CHOOSE i \in hits : \A j \in hits : i <= j

\* The routing invocation uses timezone tz throughout: it is the handler's
\* timezone, a naive departureTime or arrivalTime that is sent is read in
\* it, and the depart and arrive instants of every trip are shown in it.
UsesTimezone(tz) ==
  /\ timezone = Some(tz)
  /\ params[1].departureTime = Some(NaiveTime)
       => ParamValues("departAfter") \subseteq FormatDateForTripGo(NaiveTime, tz)
  /\ (params[1].departureTime = None /\ params[1].arrivalTime = Some(NaiveTime))
       => ParamValues("arriveBefore") \subseteq FormatDateForTripGo(NaiveTime, tz)
  /\ pc = "done"
       => \A k \in DOMAIN OutTrips :
            LET trip == SourceOf(OutTrips[k])
            IN  /\ OutTrips[k].depart.wall = WallClock(trip.depart, tz)
                /\ OutTrips[k].depart.offsetPart = LongOffset(OffsetAt(tz, trip.depart))
                /\ OutTrips[k].arrive.wall = WallClock(trip.arrive, tz)
                /\ OutTrips[k].arrive.offsetPart = LongOffset(OffsetAt(tz, trip.arrive))

Invocations == {Running} \cup { suspended[i] : i \in DOMAIN suspended }

FailsWith(t, message) ==
  [result |-> None, failure |-> <<ToolPrefix(t)>> \o message]

ReturnsDocument(doc) == [result |-> Some(doc), failure |-> <<>>]

\* What the routing tool gives for parameters p and upstream responses rs
\* when it is the only invocation.
RoutingAlone(p, rs) ==
  IF FetchFailure(rs[1]) # <<>> THEN {FailsWith("routing", FetchFailure(rs[1]))}
  ELSE IF rs[1].body[1].regions = None
  THEN {FailsWith("routing", <<"Failed to fetch regions">>)}
  ELSE LET regions == rs[1].body[1].regions[1]
           hits == Containing(p.from, regions)
           first == IF hits = {} THEN 0
                    ELSE CHOOSE i \in hits : \A j \in hits : i <= j
           tz == IF first = 0 \/ regions[first].timezone = "" THEN "UTC"
                 ELSE regions[first].timezone
       IN  IF FetchFailure(rs[2]) # <<>>
           THEN {FailsWith("routing", FetchFailure(rs[2]))}
           ELSE IF HasUpstreamError(rs[2].body[1])
           THEN {FailsWith("routing",
                           <<"Routing failed: ", rs[2].body[1].error[1]>>)}
           ELSE { ReturnsDocument(
                    [trips |-> FormattedTrips(rs[2].body[1], p.limit[1], tz),
                     query |-> [from |-> p.from, to |-> p.to,
                                url |-> RoutingRequest(ApiKey, p, tp)]]) :
                    tp \in TimeParams(p, tz) }

SaveAlone(p, rs) ==
  IF FetchFailure(rs[1]) # <<>> THEN {FailsWith("save", FetchFailure(rs[1]))}
  ELSE IF HasUpstreamError(rs[1].body[1])
  THEN {FailsWith("save", <<"Routing failed: ", rs[1].body[1].error[1]>>)}
  ELSE {ReturnsDocument([url |-> rs[1].body[1].url])}

LocationsAlone(p, rs) ==
  IF FetchFailure(rs[1]) # <<>>
  THEN {FailsWith("locations", FetchFailure(rs[1]))}
  ELSE IF HasUpstreamError(rs[1].body[1])
  THEN {FailsWith("locations",
                  <<"Locations search failed: ", rs[1].body[1].error[1]>>)}
  ELSE {ReturnsDocument(
          [locations |-> FormattedLocations(rs[1].body[1]),
           groups |-> GroupSummaries(rs[1].body[1]),
           totalLocations |-> Len(FormattedLocations(rs[1].body[1])),
           query |-> [lat |-> p.lat, lng |-> p.lng, radius |-> p.radius,
                      modes |-> p.modes, limit |-> p.limit]])}

DeparturesAlone(p, rs) ==
  IF FetchFailure(rs[1]) # <<>>
  THEN {FailsWith("departures", FetchFailure(rs[1]))}
  ELSE IF HasUpstreamError(rs[1].body[1])
  THEN {FailsWith("departures",
                  <<"Departures search failed: ", rs[1].body[1].error[1]>>)}
  ELSE {ReturnsDocument(
          [departures |-> FormattedDepartures(rs[1].body[1]),
           query |-> [region |-> p.region, stopCodes |-> p.stopCodes]])}

\* The outcomes invocation v can have when it runs alone with its
\* parameters and its upstream responses.
OutcomesAlone(v) ==
  IF v.tool = "routing" THEN RoutingAlone(v.params[1], v.responses)
  ELSE IF v.tool = "save" THEN SaveAlone(v.params[1], v.responses)
  ELSE IF v.tool = "locations" THEN LocationsAlone(v.params[1], v.responses)
  ELSE DeparturesAlone(v.params[1], v.responses)

\* C22: whatever the interleaving of the invocations at their await points,
\* the result or failure of each finished invocation is the one it has when
\* it runs alone with the same parameters and the same upstream responses.
C22_InvocationsAreIndependent ==
  \A v \in Invocations :
    v.pc \in {"done", "failed"}
    => [result |-> v.result, failure |-> v.failure] \in OutcomesAlone(v)

\* A routing invocation returned trips in New York's timezone while another
\* routing invocation, whose region is Sydney's, awaits its routing response.
C22_Witness ==
  /\ tool = "routing"
  /\ pc = "done"
  /\ timezone = Some("NewYork")
  /\ result[1].trips # <<>>
  /\ \E i \in DOMAIN suspended :
       /\ suspended[i].tool = "routing"
       /\ suspended[i].pc = "awaitRouting"
       /\ suspended[i].timezone = Some("Sydney")

\* C23: coordinateInPolygon has no error outcome of its own: for every
\* encoded polygon that decodes to a sequence of at least 3 vertices, closed
\* or unclosed, it answers true or false.
C23_NoErrorOfItsOwn ==
  (geoOut # None /\ Len(Decode(geoIn[1].polygon)) >= 3)
  => geoOut[1].given.answer \in {"inside", "outside"}

\* C24: every request that carries the API key is addressed to the fixed
\* upstream base, whatever the parameters of the tool are.
C24_KeyOnlyToApiBase ==
  \A i \in DOMAIN requests :
    requests[i].key = ApiKey => requests[i].base = TRIPGO_API_BASE_URL

(***************************************************************************)
(* Claims about the locations totals (checked under SpecTotals).           *)
(***************************************************************************)
\* The sum of the six locationCounts values of the first n returned groups.
RECURSIVE SumOfCounts(_, _)
SumOfCounts(summaries, n) ==
  IF n = 0 THEN 0
  ELSE LET counts == summaries[n].locationCounts
       IN  SumOfCounts(summaries, n - 1)
             + counts.stops + counts.bikePods + counts.carParks
             + counts.carPods + counts.carRentals + counts.freeFloating

\* C25: in every successful locations output totalLocations is the length
\* of the flattened list and the sum of the locationCounts values over all
\* returned groups and the six categories; when the response has no groups
\* the list is empty and totalLocations is 0.
C25_TotalIsLengthAndSumOfCounts ==
  (tool = "locations" /\ pc = "done")
  => LET out == result[1]
         groups == responses[1].body[1].groups
     IN  /\ out.totalLocations = Len(out.locations)
         /\ out.totalLocations =
              (IF out.groups = None THEN 0
               ELSE SumOfCounts(out.groups[1], Len(out.groups[1])))
         /\ (groups = None \/ groups = Some(<<>>))
              => (out.locations = <<>> /\ out.totalLocations = 0)

\* Two groups were returned, with four locations in all.
C25_Witness ==
  /\ tool = "locations"
  /\ pc = "done"
  /\ result[1].groups # None
  /\ Len(result[1].groups[1]) = 2
  /\ result[1].totalLocations = 4
  /\ Len(result[1].locations) = 4

(***************************************************************************)
(* Specifications.                                                         *)
(***************************************************************************)
GeoIdle ==
  /\ geoIn = None
  /\ geoOut = None

TimeIdleInit ==
  /\ timeIn = None
  /\ timeOut = TimeIdle

\* One tool invocation, from the call to its result or failure.
Init == InvocationInit /\ TimeIdleInit /\ GeoIdle
Spec == Init /\ [][Next]_vars

\* The timezone helpers on every input.
InitTime == TimeInit /\ InvocationInit /\ GeoIdle
SpecTime == InitTime /\ [][TimeNext]_vars

\* The region resolver on every input.
InitRegion == GeoInit /\ InvocationInit /\ TimeIdleInit
SpecRegion == InitRegion /\ [][GeoNext]_vars

\* The polygon test on every input.
InitPolygon == PolygonInit /\ InvocationInit /\ TimeIdleInit
SpecPolygon == InitPolygon /\ [][PolygonNext]_vars

\* The routing tool over the selection's responses.
SpecFormat == Init /\ [][NextFormat]_vars

\* The routing tool over the segments' responses.
SpecSegments == Init /\ [][NextSegments]_vars

\* The locations tool, the responses without groups included.
SpecTotals == Init /\ [][NextTotals]_vars

\* Several invocations in progress at once.
SpecConcurrent == ConcurrentInit /\ [][NextConcurrent]_vars

SpecZoned == Init /\ [][NextZoned]_vars

SpecDurations == Init /\ [][NextDurations]_vars

\* The locations tool over the flattening's responses.
SpecLocations == Init /\ [][NextLocations]_vars

====
